---- MODULE Spec2Model ----
(***************************************************************************)
(* Collaboration / session-sync subsystem of the editor shell:              *)
(*   lib/collaboration.ts  (CollaborationService: identity, share codes,    *)
(*                          session registry, sync channel)                 *)
(*   components/CodeEditor.tsx      (subscribe / debounce / guard effects)  *)
(*   components/QuickAssistPanel.tsx (create / join / end handlers)         *)
(*   components/QuickAssistWindow.tsx (QuickAssistEditor of the child       *)
(*                          window), App.tsx (main window handlers)         *)
(*                                                                         *)
(* Every browser window is one JavaScript realm with its own               *)
(* CollaborationService singleton and its own React state.  Windows of one *)
(* browser profile share one localStorage.  A handler runs to completion;  *)
(* handlers are written as operators from a world record to a world        *)
(* record, composed in program order, and an action applies one handler    *)
(* (with the React render and effects it causes) to the current world.     *)
(***************************************************************************)
EXTENDS Integers, Sequences, FiniteSets, TLC

VARIABLES
  isMock,     \* supabase.ts: isMock (no backend configured in this build)
  now,        \* Date.now(), in ms since the windows were opened
  profile,    \* window -> browser profile (which localStorage it sees)
  ls,         \* profile -> localStorage content
  db,         \* hosted store: shared_sessions rows, realtime channels
  win,        \* window -> React state, refs and CollaborationService fields
  uuid,       \* number of ids handed out by crypto.randomUUID / gen_random_uuid
  hist        \* history: publishes, callback invocations, join results, ends
              \* (observation only: no handler reads it)

vars == <<isMock, now, profile, ls, db, win, uuid, hist>>

----------------------------------------------------------------------------
(* Bounds of the model *)

\* number of distinct Math.random() streams a share-code generation may draw
MaxStreams == 2
\* largest value of the clock offset `now` reached by single-millisecond steps
MaxMs == 2
\* how many times the clock may jump by a whole time-to-live
MaxJumps == 1
\* total number of sync events that may be published in one behaviour
MaxEvents == 4
\* number of shared sessions that may be created in one behaviour
MaxSessions == 2
\* number of distinct Math.random() tiebreaks of an event id
MaxRand == 2
\* number of changes the users make in the editors in one behaviour (a change
\* of a buffer or a choice in the language selector)
MaxEdits == 2
\* number of calls of the session registry (create, join, end) in one behaviour
MaxCalls == 3
\* windows one window opens
MaxOpens == 3

----------------------------------------------------------------------------
(* Program constants *)

\* collaboration.ts:350  for (let i = 0; i < 6; i++)
CodeLen == 6
\* collaboration.ts:242  syncs.slice(-50)
LogCap == 50
\* collaboration.ts:78   Date.now() + 24 * 60 * 60 * 1000
TTL == 86400000
\* CodeEditor.tsx:95     setTimeout(..., 500), the debounce of the code sync
DebounceMs == 500

Windows == {"h", "g", "c"}
\* "h" and "g" run App.tsx (main.tsx:48-54); "c" is a Quick Assist window
\* (main.tsx:12-47), reached through ?quickAssist=<code>
AppWindows == {"h", "g"}
ChildWindows == {"c"}
Profiles == {"A", "B"}

NoUser == "null"
Permissions == {"view", "edit"}
Languages == {"javascript", "python"}

----------------------------------------------------------------------------
(* Strings.  A string is a sequence of one-character strings, so that     *)
(* toUpperCase, trim and the input filter act on characters.              *)

\* collaboration.ts:348  const chars = 'ABCDEFGHJKLMNPQRSTUVWXYZ23456789'
chars ==
  <<"A","B","C","D","E","F","G","H","J","K","L","M","N","P","Q","R",
    "S","T","U","V","W","X","Y","Z","2","3","4","5","6","7","8","9">>

UpperLetters ==
  <<"A","B","C","D","E","F","G","H","I","J","K","L","M",
    "N","O","P","Q","R","S","T","U","V","W","X","Y","Z">>
LowerLetters ==
  <<"a","b","c","d","e","f","g","h","i","j","k","l","m",
    "n","o","p","q","r","s","t","u","v","w","x","y","z">>
Digits == {"0","1","2","3","4","5","6","7","8","9"}

Range(f) == {f[i] : i \in DOMAIN f}

\* String.prototype.toUpperCase, one character
UpperChar(ch) ==
  IF \E i \in 1..26 : LowerLetters[i] = ch
    THEN UpperLetters[CHOOSE i \in 1..26 : LowerLetters[i] = ch]
    ELSE ch

LowerChar(ch) ==
  IF \E i \in 1..26 : UpperLetters[i] = ch
    THEN LowerLetters[CHOOSE i \in 1..26 : UpperLetters[i] = ch]
    ELSE ch

toUpperCase(str) == [i \in 1..Len(str) |-> UpperChar(str[i])]
toLowerCase(str) == [i \in 1..Len(str) |-> LowerChar(str[i])]

RECURSIVE trimStart(_)
trimStart(str) ==
  IF str # <<>> /\ Head(str) = " " THEN trimStart(Tail(str)) ELSE str

RECURSIVE trimEnd(_)
trimEnd(str) ==
  IF str # <<>> /\ str[Len(str)] = " "
    THEN trimEnd(SubSeq(str, 1, Len(str) - 1))
    ELSE str

\* String.prototype.trim
trim(str) == trimEnd(trimStart(str))

\* QuickAssistPanel.tsx:305  .replace(/[^A-Z0-9]/g, '')
RECURSIVE stripNonCode(_)
stripNonCode(str) ==
  IF str = <<>> THEN <<>>
  ELSE IF Head(str) \in Range(UpperLetters) \cup Digits
    THEN <<Head(str)>> \o stripNonCode(Tail(str))
    ELSE stripNonCode(Tail(str))

\* QuickAssistPanel.tsx:300-310: the share-code input.  The text is typed one
\* character at a time; a keystroke is refused once the value holds maxLength
\* characters, and onChange stores the upper-cased, filtered value.
RECURSIVE typeInto(_, _)
typeInto(value, keys) ==
  IF keys = <<>> THEN value
  ELSE IF Len(value) >= CodeLen THEN typeInto(value, Tail(keys))
  ELSE typeInto(stripNonCode(toUpperCase(value \o <<Head(keys)>>)), Tail(keys))

----------------------------------------------------------------------------
(* Math.random().  A draw is given in thousandths, 0..999.                *)

\* the k-th stream of CodeLen draws
Stream(k) == [i \in 1..CodeLen |-> (137 * k * i + 31 * (k - 1)) % 1000]

\* String.prototype.charAt: the character at a place counted from 0, the
\* empty string outside the string
charAt(str, pos) ==
  IF pos \in 0..(Len(str) - 1) THEN <<str[pos + 1]>> ELSE <<>>

\* the places counted from 1, as generate_share_code of the migration counts
\* them for substr
RECURSIVE generateShareCode_oneBased(_)
generateShareCode_oneBased(draws) ==
  IF draws = <<>> THEN <<>>
  ELSE charAt(chars, ((Head(draws) * Len(chars)) \div 1000) + 1)
         \o generateShareCode_oneBased(Tail(draws))

\* collaboration.ts:347-354: one draw per character, code += chars.charAt(
\* Math.floor(Math.random() * chars.length))
RECURSIVE generateShareCode(_)
generateShareCode(draws) ==
  IF draws = <<>> THEN <<>>
  ELSE charAt(chars, (Head(draws) * Len(chars)) \div 1000)
         \o generateShareCode(Tail(draws))

\* collaboration.ts:57  `user_${Date.now()}_${Math.random()...}`: the random
\* part makes the ids of two generations differ; the window that generated
\* the id stands for it
FreshUserId(w) == CASE w = "h" -> "user_h" [] w = "g" -> "user_g" [] OTHER -> "user_c"

\* App.tsx:29 / main.tsx:18  db.sessions.create(...).id, one per window
OwnSessionId(w) == CASE w = "h" -> "sess_h" [] w = "g" -> "sess_g" [] OTHER -> "sess_c"

----------------------------------------------------------------------------
(* The world: what the handlers read and write.                            *)

\* rnd is the first Math.random() value the running handler will draw for an
\* event id and drawn the number of ids it has made so far
World ==
  [isMock |-> isMock, now |-> now, profile |-> profile, ls |-> ls, db |-> db,
   win |-> win, uuid |-> uuid, hist |-> hist, rnd |-> 0, drawn |-> 0]

\* the variables hold world wd
Starts(wd) ==
  /\ isMock = wd.isMock
  /\ now = wd.now
  /\ profile = wd.profile
  /\ ls = wd.ls
  /\ db = wd.db
  /\ win = wd.win
  /\ uuid = wd.uuid
  /\ hist = wd.hist

Drawing(wd, r) == [wd EXCEPT !.rnd = r]

\* a handler's result becomes the next state; handlers never set the clock,
\* the build flavour or the profile of a window
Becomes(wd) ==
  /\ ls' = wd.ls
  /\ db' = wd.db
  /\ win' = wd.win
  /\ uuid' = wd.uuid
  /\ hist' = wd.hist
  /\ UNCHANGED <<isMock, now, profile>>

\* localStorage of the profile window w runs in
Storage(wd, w) == wd.ls[wd.profile[w]]

EmptyStorage ==
  [userId |-> NoUser,      \* 'collab_user_id'
   sessions |-> <<>>,      \* `shared_session_${shareCode}` -> SharedSession
   sync |-> <<>>,          \* `code_sync_${sharedSessionId}` -> CodeSync[]
   editorCode |-> <<>>]    \* `editor-code:${sessionId}:${language}` -> text

\* a key -> value map with a changing domain
Has(map, key) == key \in DOMAIN map
Put(map, key, value) == (key :> value) @@ map
Remove(map, key) == [k \in (DOMAIN map) \ {key} |-> map[k]]

InitialCode(w) == IF w \in AppWindows THEN "start" ELSE "waiting"

InitWindow(w) ==
  [loaded |-> "no",          \* module not evaluated / id read / service built
   readId |-> NoUser,        \* collaboration.ts:55, the value getItem returned
   userId |-> NoUser,        \* CollaborationService.userId
   shareCode |-> <<>>,       \* ?quickAssist= parameter of a child window
   \* React state of App (App.tsx:15-21) or QuickAssistEditor (389-393)
   code |-> InitialCode(w),
   language |-> "javascript",
   sharedSession |-> <<>>,   \* <<>> is null, <<s>> a SharedSession object
   isHost |-> FALSE,
   error |-> "",             \* QuickAssistPanel.tsx:41, "" is null
   langCont |-> <<>>,        \* App.handleLanguageChange suspended at its await
   retry |-> FALSE,          \* QuickAssistEditor retryInterval is running
   \* CodeEditor refs (CodeEditor.tsx:35-37)
   timer |-> <<>>,           \* codeSyncTimeoutRef: the pending debounce timeout
   applying |-> FALSE,       \* isApplyingRemoteChange.current
   guards |-> <<>>,          \* pending 100 ms timeouts that lower the guard,
                             \* each by the time it was set
   cbLanguage |-> "javascript", \* `language` closed over by the callbacks
   \* CollaborationService fields (collaboration.ts:38-47, 216)
   svcSession |-> 0,         \* sessionId, 0 is null
   callbacks |-> "none",     \* {} / CodeEditor's / QuickAssistEditor's
   mockInterval |-> <<>>,    \* (this as any).mockInterval
   leakedIntervals |-> <<>>, \* setInterval timers no field refers to any more
   channel |-> <<>>,         \* this.channel
   leakedChannels |-> <<>>,  \* subscribed channels no field refers to any more
   \* WindowShareService (QuickAssistPanel.tsx:658-748) and the browser
   popups |-> <<>>,          \* the windows this window has opened, by target
                             \* name, each open or closed
   sharedWindows |-> <<>>,   \* shareCode -> the window (its place in popups)
   pollers |-> <<>>,         \* running checkClosed intervals
   \* the cross-window bridge (App.tsx:77-100, QuickAssistWindow.tsx:459-509)
   opener |-> <<>>,          \* window.opener: <<>> is null, <<w>> window w
   self |-> 0,               \* which of the opener's windows this one is
   inbox |-> <<>>,           \* message events posted to the window and not
                             \* yet handed to its listeners
   listeners |-> <<>>,       \* message listeners setupLocalWindowSync has
                             \* added and nothing has removed, each with the
                             \* code and language of the render it closes over
   requesters |-> 0,         \* running request-code intervals
   publishing |-> <<>>,      \* a publish between its getItem and its setItem
   cleanup |-> "none",       \* `cleanup` of the connect effect: what the
                             \* function it holds removes ("none": undefined)
   \* AI suggestions (CodeEditor.tsx:22-29, 167-264; aiService.ts)
   apiKey |-> FALSE,         \* whether the build has an OpenAI key
   isAIProcessing |-> FALSE,
   suggestion |-> <<>>,      \* the suggestion shown, <<>> is null
   requests |-> <<>>,        \* getSuggestion calls suspended at an await
   increments |-> <<>>,      \* incrementSuggestions calls of applySuggestion
                             \* suspended at an await
   total_suggestions |-> 0,  \* the row of the window's own session in the
   accepted_suggestions |-> 0] \* table sessions

NoHistory ==
  [pubs |-> <<>>,            \* every syncCode / syncLanguage call, in order
   deliv |-> [w \in Windows |-> [n \in 1..MaxEvents |-> 0]],
                             \* window, publish -> subscriber callback invocations
   batch |-> [w \in Windows |-> <<>>],
                             \* the publishes the latest timer or channel
                             \* callback of the window handed on, in order
   joins |-> [w \in Windows |-> <<>>],  \* the last joinSharedSession call
   made |-> <<>>,            \* every session createSharedSession returned,
                             \* with the caller and the arguments of the call
   ended |-> {},             \* ids of the sessions a host has ended
   refused |-> {},           \* windows whose editor refused a local edit
   edits |-> 0,              \* changes the users have made in the editors
   calls |-> 0,              \* calls of the session registry
   asked |-> 0,              \* suggestion requests issued
   incremented |-> [w \in Windows |-> [n |-> 0, k |-> 0]],
                             \* incrementSuggestions calls that have written
                             \* the row of the window's session, and how
                             \* many of them with accepted = true
   answers |-> <<>>]         \* the last call of aiService.getSuggestion: its
                             \* inputs and what it gave its caller

\* the windows before any module has loaded
ColdWorld(mock, prof) ==
  [isMock |-> mock, now |-> 0, profile |-> prof,
   ls |-> [p \in Profiles |-> EmptyStorage],
   db |-> [sessions |-> {}],
   win |-> [w \in Windows |-> InitWindow(w)],
   uuid |-> 0, hist |-> NoHistory, rnd |-> 0, drawn |-> 0]

----------------------------------------------------------------------------
(* Identity provider: collaboration.ts:49-61.  getItem and setItem are two *)
(* storage operations; a window of the same profile that is loading at the *)
(* same time may run between them.                                         *)

getOrCreateUserId_read(wd, w) ==
  [wd EXCEPT !.win[w].readId = Storage(wd, w).userId,
             !.win[w].loaded = "read"]

getOrCreateUserId_write(wd, w) ==
  LET got == wd.win[w].readId IN
  IF got = NoUser
    THEN [wd EXCEPT !.ls[wd.profile[w]].userId = FreshUserId(w),
                    !.win[w].userId = FreshUserId(w),
                    !.win[w].loaded = "yes"]
    ELSE [wd EXCEPT !.win[w].userId = got,
                    !.win[w].loaded = "yes"]

----------------------------------------------------------------------------
(* Session registry: collaboration.ts:63-135, 317-329 and the              *)
(* shared_sessions table of the hosted store.                              *)

\* a result of createSharedSession / joinSharedSession: the world after the
\* call and either the returned session or the message of the Error thrown
Returned(wd, session) == [wd |-> wd, ok |-> TRUE, session |-> session, error |-> ""]
Thrown(wd, message) == [wd |-> wd, ok |-> FALSE, session |-> <<>>, error |-> message]

\* a new session that is given no time to live
NewSession_noExpiry(id, sessionId, shareCode, userId, permissions, at) ==
  [id |-> id, session_id |-> sessionId, share_code |-> shareCode,
   host_user_id |-> userId, guest_user_id |-> NoUser,
   permissions |-> permissions, is_active |-> TRUE, connected_at |-> <<>>,
   created_at |-> at, expires_at |-> at]

\* collaboration.ts:68-79 (mock) / 86-92 with the column defaults of
\* shared_sessions (store): the record of a new session
NewSession(id, sessionId, shareCode, userId, permissions, at) ==
  [id |-> id,
   session_id |-> sessionId,
   share_code |-> shareCode,
   host_user_id |-> userId,
   guest_user_id |-> NoUser,
   permissions |-> permissions,
   is_active |-> TRUE,
   connected_at |-> <<>>,      \* <<>> is null
   created_at |-> at,
   expires_at |-> at + TTL]

\* history: createSharedSession, called by window w, returned session
NoteMade(wd, w, sessionId, permissions, session) ==
  [wd EXCEPT !.hist.made =
     Append(@, [w |-> w, sessionId |-> sessionId, permissions |-> permissions,
                session |-> session])]

\* collaboration.ts:64-98
createSharedSession(wd, w, sessionId, permissions, draws, storeOk) ==
  LET shareCode == generateShareCode(draws)
      id == wd.uuid + 1
      session == NewSession(id, sessionId, shareCode, wd.win[w].userId,
                            permissions, wd.now)
      noted == NoteMade(wd, w, sessionId, permissions, session)
  IN
  IF wd.isMock
    THEN Returned([noted EXCEPT !.uuid = id,
                                !.ls[wd.profile[w]].sessions =
                                   Put(@, shareCode, session)],
                  session)
    ELSE IF ~storeOk
      THEN Thrown(wd, "Failed to fetch")
    \* shared_sessions.share_code is UNIQUE (migration, share_code column)
    ELSE IF \E row \in wd.db.sessions : row.share_code = shareCode
      THEN Thrown(wd, "duplicate key value violates unique constraint")
    ELSE Returned([noted EXCEPT !.uuid = id,
                                !.db.sessions = @ \cup {session}],
                  session)

\* the share codes of the records window w can look up that are active and
\* have not expired
LiveCodes(wd, w) ==
  LET live(rec) == rec.is_active /\ wd.now < rec.expires_at IN
  IF wd.isMock
    THEN {c \in DOMAIN Storage(wd, w).sessions : live(Storage(wd, w).sessions[c])}
    ELSE {row.share_code : row \in {x \in wd.db.sessions : live(x)}}

\* history: the last joinSharedSession call of window w, with what the
\* registry held when it was made
NoteJoin(before, w, shareCode, storeOk, res) ==
  [res EXCEPT !.wd.hist.joins[w] =
     <<[shareCode |-> shareCode, answered |-> before.isMock \/ storeOk,
        ok |-> res.ok, error |-> res.error,
        session |-> IF res.ok THEN <<res.session>> ELSE <<>>,
        at |-> before.now, live |-> LiveCodes(before, w),
        ended |-> before.hist.ended,
        nth |-> IF before.hist.joins[w] = <<>> THEN 1
                ELSE before.hist.joins[w][1].nth + 1]>>]

\* a join that also gives the guest the right to edit
AssignGuest_grantsEdit(session, userId, at) ==
  [session EXCEPT !.guest_user_id = userId, !.connected_at = <<at>>,
                  !.permissions = "edit"]

\* a join that leaves the guest slot to the participant who took it first
AssignGuest_firstWins(session, userId, at) ==
  IF session.guest_user_id # NoUser
    THEN session
    ELSE [session EXCEPT !.guest_user_id = userId, !.connected_at = <<at>>]

\* collaboration.ts:112-113 / 121-122: what a join writes into the record
AssignGuest(session, userId, at) ==
  [session EXCEPT !.guest_user_id = userId, !.connected_at = <<at>>]

\* collaboration.ts:101-135
joinSharedSession(wd, w, shareCode, storeOk) ==
  NoteJoin(wd, w, shareCode, storeOk,
  IF wd.isMock
    THEN
      LET sessionKey == toUpperCase(shareCode)
          stored == Storage(wd, w).sessions
      IN
      IF ~Has(stored, sessionKey)
        THEN Thrown(wd, "Session not found")
      ELSE IF ~stored[sessionKey].is_active
        THEN Thrown(wd, "Session is not active")
      ELSE
        LET session == AssignGuest(stored[sessionKey], wd.win[w].userId, wd.now)
        IN Returned([wd EXCEPT !.ls[wd.profile[w]].sessions =
                                  Put(@, sessionKey, session)],
                    session)
    ELSE
      LET hit == {row \in wd.db.sessions :
                    /\ row.share_code = toUpperCase(shareCode)
                    /\ row.is_active}
          updated(row) == [AssignGuest(row, wd.win[w].userId, wd.now)
                             EXCEPT !.is_active = TRUE]
      IN
      \* .single(): an error unless exactly one row comes back
      IF ~storeOk \/ Cardinality(hit) # 1
        THEN Thrown(wd, "Session not found or no longer active")
        ELSE
          LET row == CHOOSE r \in hit : TRUE IN
          Returned([wd EXCEPT !.db.sessions = (@ \ {row}) \cup {updated(row)}],
                   updated(row)))

\* collaboration.ts:318-329
endSession(wd, w, sharedSessionId, isHostArg) ==
  IF wd.isMock
    THEN [wd EXCEPT !.ls[wd.profile[w]].sync = Remove(@, sharedSessionId)]
    ELSE IF isHostArg
      THEN [wd EXCEPT !.db.sessions =
              {IF row.id = sharedSessionId
                 THEN [row EXCEPT !.is_active = FALSE]
                 ELSE row : row \in @}]
      ELSE wd

----------------------------------------------------------------------------
(* Sync channel: collaboration.ts:137-315, 331-345.                        *)

\* the Math.random() value of the next event id made by the running handler
NextRand(wd) == ((wd.rnd + wd.drawn) % MaxRand) + 1

\* collaboration.ts:198  s.id > lastSyncId, on `${Date.now()}_${Math.random()}`:
\* a comparison of strings.  Date.now() has thirteen digits at any time the
\* program can run, so the timestamps compare as numbers; for equal
\* timestamps the decimal expansions of the two random numbers decide.
IdGreater(a, b) == a.t > b.t \/ (a.t = b.t /\ a.r > b.r)

\* Array.prototype.slice(0, n): the cap applied at the wrong end
LastN_oldest(seq, n) ==
  IF Len(seq) <= n THEN seq ELSE SubSeq(seq, 1, n)

\* Array.prototype.slice(-n)
LastN(seq, n) ==
  IF Len(seq) <= n THEN seq ELSE SubSeq(seq, Len(seq) - n + 1, Len(seq))

\* what getItem(syncKey) || '[]' parses to
SyncLog(wd, w, sid) ==
  IF Has(Storage(wd, w).sync, sid) THEN Storage(wd, w).sync[sid] ELSE <<>>

\* the realtime platform hands an inserted row to every channel that is
\* subscribed with filter shared_session_id=eq.<id>
Broadcast(windows, row) ==
  LET push(ch) == IF ch.sid = row.shared_session_id
                    THEN [ch EXCEPT !.inbox = Append(@, row)]
                    ELSE ch
  IN [v \in DOMAIN windows |->
        [windows[v] EXCEPT
           !.channel = [i \in DOMAIN @ |-> push(@[i])],
           !.leakedChannels = [i \in DOMAIN @ |-> push(@[i])]]]

\* CodeEditor.tsx:87, 109, 272: the local participant is a view-only guest
IsViewOnlyGuest(wnd) ==
  /\ wnd.sharedSession # <<>>
  /\ ~wnd.isHost
  /\ wnd.sharedSession[1].permissions = "view"

\* the body shared by syncCode, syncLanguage and syncCursor: build the
\* CodeSync, append it to the log (mock) or insert it into code_sync (store);
\* cursor is <<>> (null, null) or <<line, column>>
NewSync(wd, w, sharedSessionId, code, language, cursor, action, cause) ==
  LET n == Len(wd.hist.pubs) + 1
      sync ==
        \* the store numbers the row itself (code_sync.id DEFAULT
        \* gen_random_uuid()); no window reads that id
        [id |-> IF wd.isMock THEN [t |-> wd.now, r |-> NextRand(wd)]
                ELSE [t |-> 0, r |-> 0],
         shared_session_id |-> sharedSessionId,
         user_id |-> wd.win[w].userId,
         code_content |-> code,
         language |-> language,
         cursor |-> cursor,
         action |-> action,
         n |-> n]
      noted == [wd EXCEPT
                  !.drawn = @ + 1,
                  !.hist.pubs = Append(@,
                     [w |-> w, sid |-> sharedSessionId,
                      user_id |-> wd.win[w].userId, action |-> action,
                      code |-> code, language |-> language, cause |-> cause,
                      \* the publisher as it was when it published
                      viewGuest |-> IsViewOnlyGuest(wd.win[w]),
                      buffer |-> wd.win[w].code,
                      selected |-> wd.win[w].language])]
  IN [sync |-> sync, noted |-> noted]

\* collaboration.ts:240, 271, 300: the log as JSON.parse(getItem(...)) gives it
Publish_read(wd, w, sharedSessionId, code, language, cursor, action, cause) ==
  LET made == NewSync(wd, w, sharedSessionId, code, language, cursor, action, cause)
  IN [made.noted EXCEPT !.win[w].publishing =
        <<[sync |-> made.sync, syncs |-> SyncLog(wd, w, sharedSessionId)]>>]

\* collaboration.ts:241-242, 272-273, 301-302: push and setItem
Publish_write(wd, w) ==
  LET held == wd.win[w].publishing[1] IN
  [wd EXCEPT !.win[w].publishing = <<>>,
             !.ls[wd.profile[w]].sync =
                Put(@, held.sync.shared_session_id,
                    LastN(Append(held.syncs, held.sync), LogCap))]

Publish(wd, w, sharedSessionId, code, language, cursor, action, cause) ==
  LET made == NewSync(wd, w, sharedSessionId, code, language, cursor, action, cause)
      sync == made.sync
      noted == made.noted
  IN
  IF wd.isMock
    THEN
      LET syncs == SyncLog(wd, w, sharedSessionId)
          pushed == Append(syncs, sync)
      IN [noted EXCEPT !.ls[wd.profile[w]].sync =
                          Put(@, sharedSessionId, LastN(pushed, LogCap))]
    ELSE [noted EXCEPT !.win = Broadcast(@, sync)]

\* collaboration.ts:220-255
syncCode(wd, w, sharedSessionId, code, language, cause) ==
  Publish(wd, w, sharedSessionId, code, language, <<>>, "edit", cause)

\* collaboration.ts:257-284
syncLanguage(wd, w, sharedSessionId, language, cause) ==
  Publish(wd, w, sharedSessionId, "", language, <<>>, "language", cause)

\* collaboration.ts:286-315
syncCursor(wd, w, sharedSessionId, line, column, cause) ==
  Publish(wd, w, sharedSessionId, "", "", <<line, column>>, "cursor", cause)

\* collaboration.ts:191-217, the part that runs inside subscribeToSession:
\* a new timer with its own lastSyncId; the field is overwritten, a timer it
\* still referred to keeps running.  `at` is the time the timer was set or
\* last fired; `from` and `seen` count the publishes made before the timer
\* was set and before it last fired, `outlived` tells that unsubscribe has
\* returned since and left the timer running (observation only).
startMockPolling(wd, w, sharedSession) ==
  [wd EXCEPT
     !.win[w].leakedIntervals = @ \o wd.win[w].mockInterval,
     !.win[w].mockInterval =
        <<[sid |-> sharedSession.id, last |-> <<>>, at |-> wd.now,
           from |-> Len(wd.hist.pubs), seen |-> Len(wd.hist.pubs),
           outlived |-> FALSE]>>]

\* collaboration.ts:138-189
subscribeToSession(wd, w, sharedSession, callbacks) ==
  LET set == [wd EXCEPT !.win[w].callbacks = callbacks,
                        !.win[w].svcSession = sharedSession.id]
  IN
  IF wd.isMock
    THEN startMockPolling(set, w, sharedSession)
    ELSE [set EXCEPT
            !.win[w].leakedChannels = @ \o wd.win[w].channel,
            !.win[w].channel =
               <<[sid |-> sharedSession.id, cb |-> callbacks, inbox |-> <<>>,
                  from |-> Len(wd.hist.pubs), outlived |-> FALSE]>>]

\* collaboration.ts:332-345: the channel and the timer the fields refer to
\* are removed; the others stay
unsubscribe(wd, w) ==
  [wd EXCEPT !.win[w].channel = <<>>,
             !.win[w].mockInterval = <<>>,
             !.win[w].svcSession = 0,
             !.win[w].callbacks = "none",
             !.win[w].leakedIntervals =
                [i \in DOMAIN @ |-> [@[i] EXCEPT !.outlived = TRUE]],
             !.win[w].leakedChannels =
                [i \in DOMAIN @ |-> [@[i] EXCEPT !.outlived = TRUE]]]

----------------------------------------------------------------------------
(* React state handlers of the two kinds of window.  `cause` records, for  *)
(* observation only, whether the user or an applied remote event started   *)
(* the handler.                                                            *)

\* App.tsx:102-104 getStorageKey, QuickAssistWindow.tsx:528
EditorKey(w, lang) == <<OwnSessionId(w), lang>>

\* a message of the cross-window bridge
Message(type, code, language, shareCode, from) ==
  [type |-> type, code |-> code, language |-> language,
   shareCode |-> shareCode, from |-> from]

\* the Quick Assist windows that have loaded in the window window w holds
\* under handle i
LoadedIn(wd, w, i) ==
  {c \in ChildWindows : /\ wd.win[c].opener = <<w>> /\ wd.win[c].self = i
                        /\ wd.win[c].loaded = "yes"}

\* QuickAssistPanel.tsx:734-739
postMessageToWindow(wd, w, shareCode, message) ==
  LET cur == wd.win[w]
      \* a handle refers to one window
      to == IF Has(cur.sharedWindows, shareCode)
                 /\ ~cur.popups[cur.sharedWindows[shareCode]].closed
              THEN LoadedIn(wd, w, cur.sharedWindows[shareCode])
              ELSE {}
  IN IF to = {} THEN wd
     ELSE [wd EXCEPT !.win[CHOOSE c \in to : TRUE].inbox = Append(@, message)]

\* App.tsx:58-75
App_handleCodeChange(wd, w, newCode, lang) ==
  LET set == [wd EXCEPT !.win[w].code = newCode,
                        !.ls[wd.profile[w]].editorCode =
                           Put(@, EditorKey(w, lang), newCode)]
      ss == wd.win[w].sharedSession
  IN IF ss # <<>>
       THEN postMessageToWindow(set, w, ss[1].share_code,
              Message("code-update", newCode, "", ss[1].share_code, w))
       ELSE set

\* window.opener.postMessage(message, origin): a message event is queued
\* for the opener; without an opener nothing is sent
postToOpener(wd, w, message) ==
  IF wd.win[w].opener = <<>> THEN wd
  ELSE [wd EXCEPT !.win[wd.win[w].opener[1]].inbox = Append(@, message)]

\* QuickAssistWindow.tsx:511-530
QAE_handleCodeChange(wd, w, newCode, lang, cause) ==
  LET set == [wd EXCEPT !.win[w].code = newCode]
      ss == wd.win[w].sharedSession
      synced == IF ss # <<>>
                  THEN syncCode(set, w, ss[1].id, newCode, lang,
                                [by |-> cause, via |-> "direct"])
                  ELSE postToOpener(set, w,
                         Message("guest-code-update", newCode, "",
                                 wd.win[w].shareCode, w))
  IN [synced EXCEPT !.ls[wd.profile[w]].editorCode =
                       Put(@, EditorKey(w, lang), newCode)]

\* the onCodeChange prop of CodeEditor
onCodeChange(wd, w, newCode, lang, cause) ==
  IF w \in AppWindows
    THEN App_handleCodeChange(wd, w, newCode, lang)
    ELSE QAE_handleCodeChange(wd, w, newCode, lang, cause)

\* handleEditorChange without its permission check
handleEditorChange_unchecked(wd, w, value) ==
  onCodeChange(wd, w, value, wd.win[w].language, "local")

\* CodeEditor.tsx:270-278
handleEditorChange(wd, w, value) ==
  IF IsViewOnlyGuest(wd.win[w])
    THEN [wd EXCEPT !.hist.refused = @ \cup {w}]
    ELSE onCodeChange(wd, w, value, wd.win[w].language, "local")

\* App.tsx:39-43, up to the await of db.sessions.update
App_handleLanguageChange(wd, w, newLanguage, cause) ==
  [wd EXCEPT !.win[w].language = newLanguage,
             !.win[w].langCont = Append(@, [language |-> newLanguage,
                                             cause |-> cause,
                                             sharedSession |->
                                               wd.win[w].sharedSession])]

\* App.tsx:44-55, after the await
App_handleLanguageChange_resume(wd, w) ==
  LET cont == Head(wd.win[w].langCont)
      saved == Storage(wd, w).editorCode
      key == EditorKey(w, cont.language)
      popped == [wd EXCEPT !.win[w].langCont = Tail(@)]
      loaded == IF Has(saved, key)
                  THEN [popped EXCEPT !.win[w].code = saved[key]]
                  ELSE popped
      ss == cont.sharedSession
  IN IF ss # <<>>
       THEN postMessageToWindow(loaded, w, ss[1].share_code,
              Message("language-update", "", cont.language, ss[1].share_code, w))
       ELSE loaded

\* QuickAssistWindow.tsx:532-547
QAE_handleLanguageChange(wd, w, newLanguage, cause) ==
  LET set == [wd EXCEPT !.win[w].language = newLanguage]
      ss == wd.win[w].sharedSession
  IN IF ss # <<>>
       THEN syncLanguage(set, w, ss[1].id, newLanguage,
                         [by |-> cause, via |-> "direct"])
       ELSE postToOpener(set, w,
              Message("language-update", "", newLanguage,
                      wd.win[w].shareCode, w))

\* the onLanguageChange prop of CodeEditor
onLanguageChange(wd, w, newLanguage, cause) ==
  IF w \in AppWindows
    THEN App_handleLanguageChange(wd, w, newLanguage, cause)
    ELSE QAE_handleLanguageChange(wd, w, newLanguage, cause)

\* one more invocation of a subscriber callback of window w for event n
Delivered(wd, w, n) ==
  [wd EXCEPT !.hist.deliv[w][n] = @ + 1, !.hist.batch[w] = Append(@, n)]

\* CodeEditor.tsx:47-65, the callbacks CodeEditor subscribes with.  The
\* handlers they call are those of the render that subscribed.
Editor_onRemote(wd, w, sync) ==
  IF sync.user_id = wd.win[w].userId THEN wd
  \* onCursorChange has an empty body
  ELSE IF sync.action = "cursor" THEN wd
  ELSE
    LET raised == [wd EXCEPT !.win[w].applying = TRUE,
                             !.win[w].guards = Append(@, wd.now)]
    IN IF sync.action = "edit"
         THEN onCodeChange(raised, w, sync.code_content,
                           wd.win[w].cbLanguage, "remote")
         ELSE onLanguageChange(raised, w, sync.language, "remote")

\* QuickAssistWindow.tsx:410-418, the callbacks connectToSession subscribes with
QAE_onRemote(wd, w, sync) ==
  IF sync.user_id = wd.win[w].userId THEN wd
  ELSE IF sync.action = "edit"
    THEN [wd EXCEPT !.win[w].code = sync.code_content]
  ELSE IF sync.action = "language"
    THEN [wd EXCEPT !.win[w].language = sync.language]
    ELSE wd

\* collaboration.ts:172-180 / 202-210: dispatch of one CodeSync to callbacks
Dispatch(wd, w, callbacks, sync) ==
  CASE callbacks = "editor" -> Editor_onRemote(Delivered(wd, w, sync.n), w, sync)
    [] callbacks = "qae" -> QAE_onRemote(Delivered(wd, w, sync.n), w, sync)
    [] OTHER -> wd

RECURSIVE DispatchAll(_, _, _, _)
DispatchAll(wd, w, callbacks, syncs) ==
  IF syncs = <<>> THEN wd
  ELSE DispatchAll(Dispatch(wd, w, callbacks, Head(syncs)), w, callbacks,
                   Tail(syncs))

----------------------------------------------------------------------------
(* React render and effects.  After a handler has set state, React renders *)
(* the window once and runs, for every effect whose dependencies changed,  *)
(* first the cleanup its last run returned and then its body: the effects  *)
(* of CodeEditor (CodeEditor.tsx:40-112) before the connect effect of      *)
(* QuickAssistEditor (QuickAssistWindow.tsx:396-457).  `old` is the window *)
(* as the last render saw it; `fresh` tells that sharedSession was set to  *)
(* a new object.                                                           *)

RECURSIVE Render(_, _, _, _, _, _)
RECURSIVE connectToSession(_, _, _)

\* QuickAssistWindow.tsx:493-502
UsableCode == "usable"

\* what the function returned by setupLocalWindowSync removes
Removed(wnd) ==
  CASE wnd.cleanup = "both" ->
         [wnd EXCEPT !.listeners = SubSeq(@, 1, Len(@) - 1),
                     !.requesters = @ - 1, !.cleanup = "none"]
    [] wnd.cleanup = "listener" ->
         [wnd EXCEPT !.listeners = SubSeq(@, 1, Len(@) - 1), !.cleanup = "none"]
    [] OTHER -> wnd

\* QuickAssistWindow.tsx:459-509, called by a failed connectToSession; the
\* function it returns is assigned to `cleanup`, whatever `cleanup` held
setupLocalWindowSync(wd, w) ==
  LET cur == wd.win[w]
      key == EditorKey(w, cur.language)
      saved == Storage(wd, w).editorCode
      handleMessage == [code |-> cur.code, language |-> cur.language]
  IN
  IF cur.opener # <<>>
    THEN [wd EXCEPT !.win[w].listeners = Append(@, handleMessage),
                    !.win[w].requesters = @ + 1,
                    !.win[w].cleanup = "both"]
    ELSE [wd EXCEPT !.win[w].listeners = Append(@, handleMessage),
                    !.win[w].cleanup = "listener",
                    !.win[w].code = IF Has(saved, key) /\ saved[key] # ""
                                      THEN saved[key] ELSE UsableCode]

\* CodeEditor.tsx:83-102, body of the code-sync effect
CodeSyncEffect(wd, w, cause) ==
  LET cur == wd.win[w] IN
  IF cur.sharedSession = <<>> \/ cur.applying THEN wd
  ELSE IF ~cur.isHost /\ cur.sharedSession[1].permissions = "view" THEN wd
  ELSE [wd EXCEPT !.win[w].timer =
          <<[sid |-> cur.sharedSession[1].id, code |-> cur.code,
             language |-> cur.language, at |-> wd.now, cause |-> cause]>>]

\* CodeEditor.tsx:105-112, body of the language-sync effect
LanguageSyncEffect(wd, w, cause) ==
  LET cur == wd.win[w] IN
  IF cur.sharedSession = <<>> \/ cur.applying THEN wd
  ELSE IF ~cur.isHost /\ cur.sharedSession[1].permissions = "view" THEN wd
  ELSE syncLanguage(wd, w, cur.sharedSession[1].id, cur.language,
                    [by |-> cause, via |-> "effect"])

\* CodeEditor.tsx:40-80, body of the subscribe effect
SubscribeEffect(wd, w) ==
  LET cur == wd.win[w] IN
  IF cur.sharedSession = <<>>
    THEN unsubscribe(wd, w)
    ELSE [subscribeToSession(wd, w, cur.sharedSession[1], "editor")
            EXCEPT !.win[w].cbLanguage = cur.language]

Render(wd, w, old, fresh, cause, storeOk) ==
  LET cur == wd.win[w]
      ssChanged == fresh \/ old.sharedSession # cur.sharedSession
      hostChanged == old.isHost # cur.isHost
      langChanged == old.language # cur.language
      codeChanged == old.code # cur.code
      codeDeps == codeChanged \/ ssChanged \/ langChanged \/ hostChanged
      langDeps == langChanged \/ ssChanged \/ hostChanged
      connDeps == w \in ChildWindows /\ langChanged
      \* cleanups: CodeEditor.tsx:77-79, 97-101, QuickAssistWindow.tsx:452-456
      c1 == IF ssChanged /\ old.sharedSession # <<>> THEN unsubscribe(wd, w) ELSE wd
      c2 == IF codeDeps THEN [c1 EXCEPT !.win[w].timer = <<>>] ELSE c1
      c3 == IF connDeps
              THEN [unsubscribe(c2, w) EXCEPT
                      !.win[w] = [Removed(@) EXCEPT !.retry = FALSE]]
              ELSE c2
      \* bodies
      b1 == IF ssChanged THEN SubscribeEffect(c3, w) ELSE c3
      b2 == IF codeDeps THEN CodeSyncEffect(b1, w, cause) ELSE b1
      b3 == IF langDeps THEN LanguageSyncEffect(b2, w, cause) ELSE b2
  IN IF connDeps THEN connectToSession(b3, w, storeOk) ELSE b3

\* QuickAssistWindow.tsx:400-448 (setupLocalWindowSync belongs to the
\* cross-window bridge)
connectToSession(wd, w, storeOk) ==
  LET before == wd.win[w]
      res == joinSharedSession(wd, w, before.shareCode, storeOk)
  IN
  IF res.ok
    THEN
      LET set == [res.wd EXCEPT !.win[w].sharedSession = <<res.session>>,
                                !.win[w].isHost = FALSE]
          subscribed == subscribeToSession(set, w, res.session, "qae")
          cleared == [subscribed EXCEPT !.win[w].retry = FALSE]
      IN Render(cleared, w, before, TRUE, "session", storeOk)
    ELSE Render([setupLocalWindowSync(res.wd, w) EXCEPT !.win[w].retry = TRUE],
                w, before, FALSE, "session", storeOk)

\* the suspended part of App.handleLanguageChange runs as soon as the await
\* settles; without a backend db.sessions.update settles in the same task
RECURSIVE ResumeAll(_, _)
ResumeAll(wd, w) ==
  IF wd.win[w].langCont = <<>> THEN wd
  ELSE ResumeAll(App_handleLanguageChange_resume(wd, w), w)

Settle(wd, w) == IF wd.isMock THEN ResumeAll(wd, w) ELSE wd

----------------------------------------------------------------------------
(* WindowShareService: QuickAssistPanel.tsx:658-748.  A window this window *)
(* has opened is kept as the browser sees it: its target name and whether  *)
(* it is closed.                                                           *)

\* window.open(url, '_blank', features): every call opens another window
windowOpen_blank(popups, name, popupOk) ==
  IF popupOk
    THEN [popups |-> Append(popups, [name |-> name, closed |-> FALSE]),
          window |-> Len(popups) + 1]
    ELSE [popups |-> popups, window |-> 0]

\* window.open(url, name, features): an open window of that target name is
\* navigated and returned, otherwise a window is opened if the browser
\* allows it; window 0 is null
windowOpen(popups, name, popupOk) ==
  LET named == {i \in DOMAIN popups : popups[i].name = name /\ ~popups[i].closed} IN
  IF named # {}
    THEN [popups |-> popups, window |-> CHOOSE i \in named : TRUE]
  ELSE IF popupOk
    THEN [popups |-> Append(popups, [name |-> name, closed |-> FALSE]),
          window |-> Len(popups) + 1]
    ELSE [popups |-> popups, window |-> 0]

\* QuickAssistPanel.tsx:663-700; the target name is QuickAssist-<shareCode>
openEditorWindow(wd, w, shareCode, popupOk) ==
  LET cur == wd.win[w]
      \* existing.close(): closing a closed window changes nothing
      closedOld ==
        IF Has(cur.sharedWindows, shareCode)
          THEN [cur.popups EXCEPT ![cur.sharedWindows[shareCode]].closed = TRUE]
          ELSE cur.popups
      res == windowOpen(closedOld, shareCode, popupOk)
  IN
  IF res.window = 0
    THEN [wd |-> [wd EXCEPT !.win[w].popups = res.popups], window |-> 0]
    ELSE [wd |-> [wd EXCEPT
                    !.win[w].popups = res.popups,
                    !.win[w].sharedWindows = Put(@, shareCode, res.window),
                    !.win[w].pollers =
                       Append(@, [code |-> shareCode, window |-> res.window])],
          window |-> res.window]

checkClosed_idle(wd, w, j) == wd

\* QuickAssistPanel.tsx:687-692, one firing of checkClosed number j
checkClosed(wd, w, j) ==
  LET cur == wd.win[w]
      poller == cur.pollers[j]
  IN
  IF cur.popups[poller.window].closed
    THEN [wd EXCEPT
            !.win[w].sharedWindows =
               IF Has(@, poller.code) THEN Remove(@, poller.code) ELSE @,
            !.win[w].pollers =
               SubSeq(@, 1, j - 1) \o SubSeq(@, j + 1, Len(@))]
    ELSE wd

----------------------------------------------------------------------------
(* Handlers of the session panel: QuickAssistPanel.tsx:51-113.             *)

\* QuickAssistPanel.tsx:64
PopupBlocked == "Failed to open window. Please allow popups for this site."

\* QuickAssistPanel.tsx:144, 271-275, 313-317: the error text the panel can
\* render.  Only the create form and the join form render `error`; while
\* there is a current shared session the panel renders the active-session
\* view or the menu, "" is no text
VisibleError(wnd) ==
  IF wnd.sharedSession # <<>> THEN "" ELSE wnd.error

\* QuickAssistPanel.tsx:51-71 with App.tsx:198-201; popupOk tells whether the
\* browser lets the page open a window
handleCreateSession(wd, w, permissions, draws, storeOk, popupOk) ==
  LET old == wd.win[w]
      cleared == [wd EXCEPT !.win[w].error = ""]
      res == createSharedSession(cleared, w, OwnSessionId(w), permissions,
                                 draws, storeOk)
  IN
  IF res.ok
    THEN
      LET set == [res.wd EXCEPT !.win[w].sharedSession = <<res.session>>,
                                !.win[w].isHost = TRUE]
          opened == openEditorWindow(set, w, res.session.share_code, popupOk)
          told == IF opened.window = 0
                    THEN [opened.wd EXCEPT !.win[w].error = PopupBlocked]
                    ELSE opened.wd
      IN Render(told, w, old, TRUE, "session", storeOk)
    ELSE [res.wd EXCEPT !.win[w].error = res.error]

\* QuickAssistPanel.tsx:73-91 with App.tsx:198-201; shareCode is the value
\* of the share-code input
handleJoinSession(wd, w, shareCode, storeOk) ==
  LET old == wd.win[w] IN
  IF trim(shareCode) = <<>>
    THEN [wd EXCEPT !.win[w].error = "Please enter a share code"]
    ELSE
      LET cleared == [wd EXCEPT !.win[w].error = ""]
          res == joinSharedSession(cleared, w, trim(shareCode), storeOk)
      IN
      IF res.ok
        THEN Render([res.wd EXCEPT !.win[w].sharedSession = <<res.session>>,
                                   !.win[w].isHost = FALSE],
                    w, old, TRUE, "session", storeOk)
        ELSE [res.wd EXCEPT !.win[w].error = res.error]

\* QuickAssistPanel.tsx:105-113 with App.tsx:202-205
handleEndSession(wd, w) ==
  LET old == wd.win[w]
      ended == IF old.sharedSession # <<>>
                 THEN unsubscribe(endSession(wd, w, old.sharedSession[1].id,
                                             old.isHost), w)
                 ELSE wd
      noted == IF old.sharedSession # <<>> /\ old.isHost
                 THEN [ended EXCEPT !.hist.ended = @ \cup {old.sharedSession[1].id}]
                 ELSE ended
  IN Render([noted EXCEPT !.win[w].sharedSession = <<>>,
                          !.win[w].isHost = FALSE],
            w, old, FALSE, "session", TRUE)

----------------------------------------------------------------------------
(* Timer and channel callbacks.                                            *)

\* the k-th running poll timer of window w: 0 is the one mockInterval
\* refers to, 1.. are the leaked ones
IntervalAt(wnd, k) ==
  IF k = 0 THEN wnd.mockInterval[1] ELSE wnd.leakedIntervals[k]

\* the filter without the test of the marker
newSyncs_all(syncs, lastSyncId, userId) ==
  SelectSeq(syncs, LAMBDA s : s.user_id # userId)

\* collaboration.ts:197-199, the filter of a tick; lastSyncId is <<>> (null)
\* or <<id>>
newSyncs(syncs, lastSyncId, userId) ==
  LET isNew(s) == /\ lastSyncId = <<>> \/ IdGreater(s.id, lastSyncId[1])
                  /\ s.user_id # userId
  IN SelectSeq(syncs, isNew)

\* collaboration.ts:195-213, one firing of the setInterval callback
pollTick(wd, w, k) ==
  LET cur == wd.win[w]
      iv == IntervalAt(cur, k)
      syncs == SyncLog(wd, w, iv.sid)
      new == newSyncs(syncs, iv.last, cur.userId)
      last == IF new = <<>> THEN iv.last
              ELSE <<new[Len(new)].id>>
      fired == [iv EXCEPT !.last = last, !.at = wd.now,
                          !.seen = Len(wd.hist.pubs)]
      began == [wd EXCEPT !.hist.batch[w] = <<>>]
      moved == IF k = 0
                 THEN [began EXCEPT !.win[w].mockInterval[1] = fired]
                 ELSE [began EXCEPT !.win[w].leakedIntervals[k] = fired]
      applied == DispatchAll(moved, w, cur.callbacks, new)
  IN Render(Settle(applied, w), w, cur, FALSE, "remote", TRUE)

ChannelAt(wnd, k) ==
  IF k = 0 THEN wnd.channel[1] ELSE wnd.leakedChannels[k]

\* collaboration.ts:168-181, the postgres_changes handler of a channel for
\* the oldest row the platform has not yet pushed to it
onInsert(wd, w, k) ==
  LET cur == wd.win[w]
      ch == ChannelAt(cur, k)
      sync == Head(ch.inbox)
      began == [wd EXCEPT !.hist.batch[w] = <<>>]
      popped == IF k = 0
                  THEN [began EXCEPT !.win[w].channel[1].inbox = Tail(@)]
                  ELSE [began EXCEPT !.win[w].leakedChannels[k].inbox = Tail(@)]
      applied == IF sync.user_id = cur.userId THEN popped
                 ELSE Dispatch(popped, w, ch.cb, sync)
  IN Render(Settle(applied, w), w, cur, FALSE, "remote", TRUE)

\* CodeEditor.tsx:93-95, the debounce timeout fires
debounceFire(wd, w) ==
  LET t == wd.win[w].timer[1] IN
  syncCode([wd EXCEPT !.win[w].timer = <<>>], w, t.sid, t.code, t.language,
           [by |-> t.cause, via |-> "debounce"])

\* CodeEditor.tsx:54-56, 62-64, one 100 ms timeout fires
guardReset(wd, w) ==
  [wd EXCEPT !.win[w].applying = FALSE, !.win[w].guards = Tail(@)]

----------------------------------------------------------------------------
(* Actions                                                                 *)

\* App.tsx:78-100, the message listener of the main window handles one event
App_handleMessage(wd, w, message) ==
  LET cur == wd.win[w] IN
  IF message.type = "guest-code-update" /\ cur.sharedSession # <<>>
    THEN Render([wd EXCEPT !.win[w].code = message.code,
                           !.ls[wd.profile[w]].editorCode =
                              Put(@, EditorKey(w, cur.language), message.code)],
                w, cur, FALSE, "bridge", TRUE)
  ELSE IF message.type = "request-code" /\ cur.sharedSession # <<>>
    THEN postMessageToWindow(wd, w, message.shareCode,
           Message("sync-state", cur.code, cur.language, message.shareCode, w))
    ELSE wd

\* QuickAssistWindow.tsx:461-474, one listener of setupLocalWindowSync
\* handles one event; `code || code` and `language || language` fall back
\* to the values the listener closes over
handleMessage(wnd, listener, message) ==
  CASE message.type = "code-update" -> [wnd EXCEPT !.code = message.code]
    [] message.type = "language-update" -> [wnd EXCEPT !.language = message.language]
    [] message.type = "sync-state" ->
         [wnd EXCEPT !.code = IF message.code # "" THEN message.code
                              ELSE listener.code,
                     !.language = IF message.language # "" THEN message.language
                                  ELSE listener.language]
    [] OTHER -> wnd

RECURSIVE handleMessageAll(_, _, _)
handleMessageAll(wnd, listeners, message) ==
  IF listeners = <<>> THEN wnd
  ELSE handleMessageAll(handleMessage(wnd, Head(listeners), message),
                        Tail(listeners), message)

\* a message event in the Quick Assist window: every registered listener
\* gets it, in the order of registration (the listener of
\* QuickAssistWindow.tsx:301-311 changes nothing that is modelled)
QAE_handleMessage(wd, w, message, storeOk) ==
  LET cur == wd.win[w] IN
  Render([wd EXCEPT !.win[w] = handleMessageAll(cur, cur.listeners, message)],
         w, cur, FALSE, "bridge", storeOk)

\* no two events of one log carry the same id: the random part of an id has
\* 52 bits, the model's has MaxRand values
DistinctIds(wd) ==
  \A p \in Profiles : \A sid \in DOMAIN wd.ls[p].sync :
    LET log == wd.ls[p].sync[sid] IN
    Cardinality({log[i].id : i \in DOMAIN log}) = Len(log)

Do(wd) ==
  /\ Len(wd.hist.pubs) <= MaxEvents
  /\ DistinctIds(wd)
  /\ Becomes(wd)

\* a handler that calls the session registry
Call(wd) ==
  /\ hist.calls < MaxCalls
  /\ Do([wd EXCEPT !.hist.calls = @ + 1])

Rands == 0..(MaxRand - 1)
StoreAnswers == IF isMock THEN {TRUE} ELSE BOOLEAN

\* the share code of the k-th random stream
CodeOf(k) == generateShareCode(Stream(k))

\* ways of writing a share code: as generated, in lower case, and with
\* white space before or after it
Variants(code) ==
  {code, toLowerCase(code), <<" ">> \o code, toLowerCase(code) \o <<" ">>}

TypedTexts == Variants(CodeOf(1)) \cup {CodeOf(k) : k \in 1..MaxStreams}
\* what the share-code input can hold after a text has been typed into it
FieldValues == {typeInto(<<>>, keys) : keys \in TypedTexts}
UrlCodes == Variants(CodeOf(1))
\* what the users type: the k-th change of a behaviour leaves the text
\* Typed(k) in the editor it is made in; any two changes leave different texts
Typed(k) == <<"x", "y", "z", "u", "v", "w">>[k]

Ready(w) == win[w].loaded = "yes"

\* the module of a window starts to load: new CollaborationService() reads
\* the stored id; a child window is opened on a ?quickAssist= address
LoadRead(w) ==
  /\ win[w].loaded = "no"
  /\ \E url \in (IF w \in ChildWindows THEN UrlCodes ELSE {<<>>}) :
       Becomes([getOrCreateUserId_read(World, w) EXCEPT !.win[w].shareCode = url])

\* the constructor completes; the components mount.  CodeEditor's effects
\* find no shared session; QuickAssistEditor's connect effect runs
LoadWrite(w) ==
  /\ win[w].loaded = "read"
  /\ \E storeOk \in StoreAnswers, r \in Rands :
       LET built == getOrCreateUserId_write(Drawing(World, r), w) IN
       IF w \in ChildWindows
         \* QuickAssistWindow.tsx:316-318
         THEN Call(connectToSession(
                     postToOpener(built, w,
                        Message("window-ready", "", "", win[w].shareCode, w)),
                     w, storeOk))
         ELSE Do(built)

\* Create Session pressed in window w; generateShareCode draws one of
\* `streams`
CreateSessionDrawing(w, streams) ==
  /\ w \in AppWindows /\ Ready(w)
  /\ win[w].sharedSession = <<>>
  /\ uuid < MaxSessions
  /\ \E permissions \in Permissions, draws \in streams,
        storeOk \in StoreAnswers, r \in Rands :
       \E popupOk \in BOOLEAN :
         Call(handleCreateSession(Drawing(World, r), w, permissions,
                                  draws, storeOk, popupOk))

CreateSession(w) == CreateSessionDrawing(w, {Stream(k) : k \in 1..MaxStreams})

JoinSession(w) ==
  /\ w \in AppWindows /\ Ready(w)
  /\ win[w].sharedSession = <<>>
  \* QuickAssistPanel.tsx: the button is disabled unless the input holds
  \* six characters
  /\ \E shareCode \in FieldValues, storeOk \in StoreAnswers, r \in Rands :
       /\ Len(shareCode) = CodeLen
       /\ Call(handleJoinSession(Drawing(World, r), w, shareCode, storeOk))

EndSession(w) ==
  /\ w \in AppWindows /\ Ready(w)
  /\ win[w].sharedSession # <<>>
  /\ Call(handleEndSession(World, w))

ChildRetry(w) ==
  /\ w \in ChildWindows /\ Ready(w)
  /\ win[w].retry
  /\ \E storeOk \in StoreAnswers, r \in Rands :
       Call(connectToSession(Drawing(World, r), w, storeOk))

LocalEdit(w) ==
  /\ Ready(w)
  /\ hist.edits < MaxEdits
  /\ \E value \in {Typed(hist.edits + 1)}, r \in Rands :
       LET wd == [Drawing(World, r) EXCEPT !.hist.edits = @ + 1] IN
       Do(Render(handleEditorChange(wd, w, value), w, win[w], FALSE, "local", TRUE))

SelectLanguage(w) ==
  /\ Ready(w)
  /\ hist.edits < MaxEdits
  /\ \E lang \in Languages \ {win[w].language},
        storeOk \in StoreAnswers, r \in Rands :
       LET wd == [Drawing(World, r) EXCEPT !.hist.edits = @ + 1] IN
       Do(Render(Settle(onLanguageChange(wd, w, lang, "local"), w),
                 w, win[w], FALSE, "local", storeOk))

\* db.sessions.update answers (the store only): the handler resumes, or the
\* rejected await ends it
ResumeLanguage(w) ==
  /\ win[w].langCont # <<>>
  /\ \E updated \in BOOLEAN, r \in Rands :
       LET wd == Drawing(World, r) IN
       Do(IF updated
            THEN Render(App_handleLanguageChange_resume(wd, w), w, win[w],
                        FALSE, Head(win[w].langCont).cause, TRUE)
            ELSE [wd EXCEPT !.win[w].langCont = Tail(@)])

DebounceFire(w) ==
  /\ win[w].timer # <<>>
  /\ win[w].timer[1].at < now
  /\ \E r \in Rands : Do(debounceFire(Drawing(World, r), w))

GuardReset(w) ==
  /\ win[w].guards # <<>>
  /\ Head(win[w].guards) < now
  /\ Do(guardReset(World, w))

PollTick(w) ==
  \E k \in 0..Len(win[w].leakedIntervals), r \in Rands :
    /\ k = 0 => win[w].mockInterval # <<>>
    /\ IntervalAt(win[w], k).at < now
    /\ Do(pollTick(Drawing(World, r), w, k))

RealtimeDeliver(w) ==
  \E k \in 0..Len(win[w].leakedChannels), r \in Rands :
    /\ k = 0 => win[w].channel # <<>>
    /\ ChannelAt(win[w], k).inbox # <<>>
    /\ Do(onInsert(Drawing(World, r), w, k))

\* a millisecond passes
Tick ==
  /\ now % TTL < MaxMs
  /\ now' = now + 1
  /\ UNCHANGED <<isMock, profile, ls, db, win, uuid, hist>>

\* a whole time-to-live passes with no window doing anything
Expire ==
  /\ now \div TTL < MaxJumps
  /\ now' = now + TTL
  /\ UNCHANGED <<isMock, profile, ls, db, win, uuid, hist>>

----------------------------------------------------------------------------
(* The whole program, from the windows being opened.  Without a backend    *)
(* (isMock) the registry and the log live in localStorage, so only windows *)
(* of one profile meet; with the store, "g" is another user's browser.     *)

Placements(mock) ==
  {p \in [Windows -> Profiles] :
     /\ p["h"] = "A"
     /\ mock => \A w \in Windows : p[w] = "A"
     /\ ~mock => p["g"] = "B"}

Init ==
  \E mock \in BOOLEAN : \E prof \in Placements(mock) :
    Starts(ColdWorld(mock, prof))

Next ==
  \/ \E w \in Windows : LoadRead(w)
  \/ \E w \in Windows : LoadWrite(w)
  \/ \E w \in Windows : CreateSession(w)
  \/ \E w \in Windows : JoinSession(w)
  \/ \E w \in Windows : EndSession(w)
  \/ \E w \in Windows : ChildRetry(w)
  \/ \E w \in Windows : LocalEdit(w)
  \/ \E w \in Windows : SelectLanguage(w)
  \/ \E w \in Windows : ResumeLanguage(w)
  \/ \E w \in Windows : DebounceFire(w)
  \/ \E w \in Windows : GuardReset(w)
  \/ \E w \in Windows : PollTick(w)
  \/ \E w \in Windows : RealtimeDeliver(w)
  \/ Tick
  \/ Expire

Spec == Init /\ [][Next]_vars

----------------------------------------------------------------------------
(* The session registry on its own: windows load, sessions are created,    *)
(* joined and ended, time passes.  Editors stay untouched and no timer     *)
(* fires.                                                                  *)

\* the two main windows have loaded at the same time (each read the stored
\* id before the other wrote one); no Quick Assist window is open yet
Loaded(cold) ==
  LET hRead == getOrCreateUserId_read(cold, "h")
      gRead == getOrCreateUserId_read(hRead, "g")
  IN getOrCreateUserId_write(getOrCreateUserId_write(gRead, "h"), "g")

InitRegistry ==
  \E mock \in BOOLEAN : \E prof \in Placements(mock) :
    Starts(Loaded(ColdWorld(mock, prof)))

NextRegistry ==
  \/ \E w \in Windows : LoadRead(w)
  \/ \E w \in Windows : LoadWrite(w)
  \/ \E w \in Windows : CreateSession(w)
  \/ \E w \in Windows : JoinSession(w)
  \/ \E w \in Windows : EndSession(w)
  \/ \E w \in Windows : ChildRetry(w)
  \/ Expire

SpecRegistry == InitRegistry /\ [][NextRegistry]_vars

----------------------------------------------------------------------------
(* An established session: the host "h" has created a session and one      *)
(* guest has joined it, through the panel ("g") or as a Quick Assist       *)
(* window ("c").  The state is the one the handlers leave behind when the  *)
(* two windows load at the same time, the host creates and the guest       *)
(* joins; host and guest are distinct participants.                        *)

Established(mock, guest, permissions) ==
  LET prof == [w \in Windows |-> IF mock \/ w = "h" THEN "A" ELSE "B"]
      cold == ColdWorld(mock, prof)
      hRead == getOrCreateUserId_read(cold, "h")
      gRead == [getOrCreateUserId_read(hRead, guest) EXCEPT
                  !.win[guest].shareCode =
                     IF guest \in ChildWindows THEN CodeOf(1) ELSE <<>>]
      hBuilt == getOrCreateUserId_write(gRead, "h")
      hosted == handleCreateSession(hBuilt, "h", permissions, Stream(1), TRUE, TRUE)
      gBuilt == getOrCreateUserId_write(hosted, guest)
  IN IF guest \in ChildWindows
       THEN connectToSession(gBuilt, guest, TRUE)
       ELSE handleJoinSession(gBuilt, guest, typeInto(<<>>, CodeOf(1)), TRUE)

InitSync ==
  \E mock \in BOOLEAN, guest \in {"g", "c"}, permissions \in Permissions :
    Starts([Established(mock, guest, permissions) EXCEPT !.rnd = 0, !.drawn = 0])

NextSync ==
  \/ \E w \in Windows : LocalEdit(w)
  \/ \E w \in Windows : DebounceFire(w)
  \/ \E w \in Windows : GuardReset(w)
  \/ \E w \in Windows : PollTick(w)
  \/ \E w \in Windows : RealtimeDeliver(w)
  \/ Tick

SpecSync == InitSync /\ [][NextSync]_vars

----------------------------------------------------------------------------
(* A view-only session: as above with permission view.                     *)

InitView ==
  \E mock \in BOOLEAN, guest \in {"g", "c"} :
    Starts([Established(mock, guest, "view") EXCEPT !.rnd = 0, !.drawn = 0])

SpecView == InitView /\ [][NextSync]_vars

----------------------------------------------------------------------------
(* The windows load, in any order and at the same time.                    *)

NextLoad ==
  \/ \E w \in Windows : LoadRead(w)
  \/ \E w \in Windows : LoadWrite(w)

SpecLoad == Init /\ [][NextLoad]_vars

----------------------------------------------------------------------------
(* Share codes: the first session is created, with generateShareCode       *)
(* drawing any sequence of the values of Math.random() at which the chosen *)
(* character changes: the least and the greatest value, and the two values *)
(* around the boundary between the first two characters.                   *)

EdgeDraws == {0, 1000 \div Len(chars), (1000 \div Len(chars)) + 1, 999}

GenerateCode(w) ==
  /\ hist.made = <<>>
  /\ CreateSessionDrawing(w, [1..CodeLen -> EdgeDraws])

NextCodes == \E w \in Windows : GenerateCode(w)

SpecCodes == InitRegistry /\ [][NextCodes]_vars

----------------------------------------------------------------------------
(* The Quick Assist window beside the registry: windows load, hosts create *)
(* and end sessions, the Quick Assist window joins by its URL, retries and *)
(* has its language changed, which makes it connect again                  *)
(* (QuickAssistWindow.tsx:452-457).  No timer fires.                       *)

NextChild ==
  \/ \E w \in Windows : LoadRead(w)
  \/ \E w \in Windows : LoadWrite(w)
  \/ \E w \in Windows : CreateSession(w)
  \/ \E w \in Windows : EndSession(w)
  \/ \E w \in Windows : ChildRetry(w)
  \/ \E w \in ChildWindows : SelectLanguage(w)

SpecChild == InitRegistry /\ [][NextChild]_vars

----------------------------------------------------------------------------
(* The cross-window bridge.  The host "h" has created a session, which    *)
(* has opened the Quick Assist window; the window loads in the browser of  *)
(* its opener, joins or falls back to local window sync and retries; its   *)
(* user types and changes the language; message events are handled and the *)
(* request-code interval fires.  Nobody types in a main window.            *)

MaxInbox == 2

\* window i that o has opened starts to load as w: its module reads the
\* stored id of the browser it shares with its opener
popupLoad(wd, w, o, i) ==
  [getOrCreateUserId_read(wd, w) EXCEPT
     !.win[w].shareCode = wd.win[o].popups[i].name,
     !.win[w].opener = <<o>>,
     !.win[w].self = i]

\* the Quick Assist window a host has opened starts to load
PopupLoad(w) ==
  /\ w \in ChildWindows /\ win[w].loaded = "no"
  /\ \E o \in AppWindows : \E i \in DOMAIN win[o].popups :
       /\ ~win[o].popups[i].closed
       /\ profile[w] = profile[o]
       /\ Becomes(popupLoad(World, w, o, i))

\* the main window handles the message event at the head of its queue
BridgeDeliver(w) ==
  /\ w \in AppWindows /\ Ready(w)
  /\ win[w].inbox # <<>>
  /\ Do(App_handleMessage([World EXCEPT !.win[w].inbox = Tail(@)], w,
                          Head(win[w].inbox)))

\* the Quick Assist window handles the message event at the head of its queue
ChildDeliver(w) ==
  /\ w \in ChildWindows /\ Ready(w)
  /\ win[w].inbox # <<>>
  /\ \E storeOk \in StoreAnswers, r \in Rands :
       Do(QAE_handleMessage([Drawing(World, r) EXCEPT !.win[w].inbox = Tail(@)],
                            w, Head(win[w].inbox), storeOk))

\* QuickAssistWindow.tsx:481-483, a request-code interval of window w fires
RequestTick(w) ==
  /\ w \in ChildWindows /\ Ready(w)
  /\ win[w].requesters > 0
  /\ Len(win[w].inbox) + Len(win[win[w].opener[1]].inbox) < MaxInbox
  /\ Becomes(postToOpener(World, w,
               Message("request-code", "", "", win[w].shareCode, w)))

\* the host has loaded, has or has not deleted the text of its editor, and
\* has pressed Create Session
Hosted(mock, permissions, cleared) ==
  LET prof == [w \in Windows |-> IF w = "g" /\ ~mock THEN "B" ELSE "A"]
      hRead == getOrCreateUserId_read(ColdWorld(mock, prof), "h")
      hBuilt == getOrCreateUserId_write(hRead, "h")
      hTyped == IF cleared
                  THEN Render(handleEditorChange(hBuilt, "h", ""), "h",
                              hBuilt.win["h"], FALSE, "local", TRUE)
                  ELSE hBuilt
  IN handleCreateSession(hTyped, "h", permissions, Stream(1), TRUE, TRUE)

InitBridge ==
  \E mock \in BOOLEAN, permissions \in Permissions, cleared \in BOOLEAN :
    Starts([Hosted(mock, permissions, cleared) EXCEPT !.rnd = 0, !.drawn = 0])

NextBridge ==
  \/ \E w \in Windows : PopupLoad(w)
  \/ \E w \in Windows : LoadWrite(w)
  \/ \E w \in Windows : ChildRetry(w)
  \/ \E w \in ChildWindows : LocalEdit(w)
  \/ \E w \in ChildWindows : SelectLanguage(w)
  \/ \E w \in Windows : BridgeDeliver(w)
  \/ \E w \in Windows : ChildDeliver(w)
  \/ \E w \in Windows : RequestTick(w)

SpecBridge == InitBridge /\ [][NextBridge]_vars

----------------------------------------------------------------------------
(* The popup flavour: the host "h" has created a session and the Quick     *)
(* Assist window it opened has loaded, in the same browser, and joined.    *)
(* The users type, the timers fire and messages are handled.  (No remote   *)
(* change is ever applied here, so no guard of one is ever reset.)         *)

Popup(mock, permissions) ==
  LET hosted == Hosted(mock, permissions, FALSE)
      read == popupLoad(hosted, "c", "h", 1)
      built == getOrCreateUserId_write(read, "c")
  IN connectToSession(
       postToOpener(built, "c",
          Message("window-ready", "", "", read.win["c"].shareCode, "c")),
       "c", TRUE)

InitPopup ==
  \E mock \in BOOLEAN, permissions \in Permissions :
    Starts([Popup(mock, permissions) EXCEPT !.rnd = 0, !.drawn = 0])

NextPopup ==
  \/ \E w \in Windows : LocalEdit(w)
  \/ \E w \in Windows : DebounceFire(w)
  \/ \E w \in Windows : PollTick(w)
  \/ \E w \in Windows : RealtimeDeliver(w)
  \/ \E w \in Windows : BridgeDeliver(w)
  \/ \E w \in Windows : ChildDeliver(w)
  \/ Tick

SpecPopup == InitPopup /\ [][NextPopup]_vars

----------------------------------------------------------------------------
(* AI suggestions.  aiService.getSuggestion (aiService.ts:106-164) and the *)
(* getSuggestion of CodeEditor (CodeEditor.tsx:188-240), which is          *)
(* suspended at each await whose answer comes over the network.            *)

\* aiService.ts:14, and a kind no entry of mockResponses has
RequestKinds == {"completion", "optimization", "debug", "docstring"}
AnyKinds == RequestKinds \cup {"refactor"}

\* what becomes of the fetch: it rejects; the status is not OK; the body is
\* not JSON; the JSON has no `choices`; `choices` is empty; the content has
\* no {...}; the {...} of the content is not JSON; the {...} is JSON
AIOutcomes == {"network", "status", "body", "shape", "empty", "text",
               "braces", "json"}

\* aiService.ts:166-204
getMockResponse(request) ==
  LET mockResponses ==
        [completion |->
           [suggestion |-> "  return result;",
            explanation |-> "Complete the function with a return statement",
            suggestion_type |-> "completion"],
         optimization |->
           [suggestion |-> IF request.language = "python"
                             THEN "// Optimized version using list comprehension"
                             ELSE "// Optimized version using map/filter",
            explanation |-> "Replaced nested loops with functional approach for better readability and performance",
            suggestion_type |-> "optimization"],
         debug |->
           [suggestion |-> "if (!array || array.length === 0) {",
            explanation |-> "Added null and empty array checks to prevent runtime errors",
            suggestion_type |-> "debug"],
         docstring |->
           [suggestion |-> request.code,
            explanation |-> "Generated comprehensive documentation",
            suggestion_type |-> "docstring"]]
  IN IF request.requestType \in DOMAIN mockResponses
       THEN mockResponses[request.requestType]
       ELSE mockResponses.completion

Resolved(response) == [raised |-> FALSE, response |-> response]
Rejected == [raised |-> TRUE, response |-> <<>>]

\* aiService.ts:114-157, the body of the try block; `content` is the text
\* the model wrote
Fetched(request, outcome, content) ==
  CASE outcome \in {"network", "status", "body", "shape", "braces"} -> Rejected
    [] outcome = "empty" ->
         Resolved([suggestion |-> "", explanation |-> "AI generated suggestion",
                   suggestion_type |-> request.requestType])
    [] outcome = "text" ->
         Resolved([suggestion |-> content,
                   explanation |-> "AI generated suggestion",
                   suggestion_type |-> request.requestType])
    [] OTHER ->
         Resolved([suggestion |-> content, explanation |-> "parsed",
                   suggestion_type |-> request.requestType])

aiService_getSuggestion_uncaught(apiKey, request, outcome, content) ==
  IF ~apiKey THEN Resolved(getMockResponse(request))
  ELSE Fetched(request, outcome, content)

\* aiService.ts:106-164
aiService_getSuggestion(apiKey, request, outcome, content) ==
  IF ~apiKey THEN Resolved(getMockResponse(request))
  ELSE LET tried == Fetched(request, outcome, content) IN
       IF tried.raised THEN Resolved(getMockResponse(request)) ELSE tried

\* the call with its inputs and its result
Answered(wd, apiKey, request, outcome, content, result) ==
  [wd EXCEPT !.hist.answers =
     <<[apiKey |-> apiKey, request |-> request, outcome |-> outcome,
        content |-> content, raised |-> result.raised,
        response |-> result.response]>>]

\* whether the await a suspended getSuggestion is at waits for the network
Remote(wd, w, stage) == IF stage = "ai" THEN wd.win[w].apiKey ELSE ~wd.isMock

\* CodeEditor.tsx:235-239, the catch and finally blocks: request i is over
Over(wd, w, i) ==
  [wd EXCEPT !.win[w].isAIProcessing = FALSE,
             !.win[w].requests =
                SubSeq(@, 1, i - 1) \o SubSeq(@, i + 1, Len(@))]

\* CodeEditor.tsx:210-234: the await that request i of window w is at is
\* answered (`ok`: the store answered without error), and getSuggestion runs
\* to its next await
Resumed(wd, w, i, outcome, content, ok) ==
  LET cur == wd.win[w]
      q == cur.requests[i]
  IN
  CASE q.stage = "ai" ->
         LET res == aiService_getSuggestion(cur.apiKey, q.request, outcome, content)
             noted == Answered(wd, cur.apiKey, q.request, outcome, content, res)
         IN IF res.raised THEN Over(noted, w, i)
            ELSE [noted EXCEPT !.win[w].requests[i].response = res.response,
                               !.win[w].requests[i].stage = "create"]
    [] q.stage = "create" ->
         IF ok THEN [wd EXCEPT !.win[w].requests[i].stage = "get"]
         ELSE Over(wd, w, i)
    [] q.stage = "get" ->
         IF ok THEN [wd EXCEPT !.win[w].requests[i].stage = "update",
                               !.win[w].requests[i].read =
                                  [total_suggestions |-> cur.total_suggestions,
                                   accepted_suggestions |-> cur.accepted_suggestions]]
         ELSE Over(wd, w, i)
    [] OTHER ->
         IF ok
           THEN Over([wd EXCEPT
                        !.hist.incremented[w].n = @ + 1,
                        !.win[w].total_suggestions = q.read.total_suggestions + 1,
                        !.win[w].accepted_suggestions = q.read.accepted_suggestions,
                        !.win[w].suggestion =
                           <<[text |-> q.response.suggestion,
                              explanation |-> q.response.explanation,
                              type |-> q.request.requestType,
                              n |-> q.n]>>],
                     w, i)
           ELSE Over(wd, w, i)

\* request number n of window w runs on while its awaits are answered
\* without the network
RECURSIVE Running(_, _, _)
Running(wd, w, n) ==
  LET at == {i \in DOMAIN wd.win[w].requests : wd.win[w].requests[i].n = n} IN
  IF at = {} THEN wd
  ELSE LET i == CHOOSE i \in at : TRUE IN
       IF Remote(wd, w, wd.win[w].requests[i].stage) THEN wd
       ELSE Running(Resumed(wd, w, i, "json", "", TRUE), w, n)

\* CodeEditor.tsx:188-210, getSuggestion up to its first await
CodeEditor_getSuggestion(wd, w, requestType) ==
  LET cur == wd.win[w]
      n == wd.hist.asked + 1
      request == [code |-> cur.code, language |-> cur.language,
                  requestType |-> requestType]
      issued == [wd EXCEPT !.hist.asked = n,
                           !.win[w].isAIProcessing = TRUE,
                           !.win[w].requests =
                              Append(@, [n |-> n, request |-> request,
                                         stage |-> "ai", response |-> <<>>,
                                         read |-> <<>>])]
  IN Running(issued, w, n)

MaxAsks == 2

\* the text the model writes for request n: any two differ
Content(n) == <<"ai-1", "ai-2", "ai-3", "ai-4">>[n]

\* CodeEditor.tsx:140-154, 167-177: a shortcut of the editor.  The commands
\* are registered when the editor mounts and call the handleManualSuggestion
\* of that render, whose isAIProcessing is false
ManualSuggestion(w) ==
  /\ Ready(w)
  /\ hist.asked < MaxAsks
  /\ \E requestType \in RequestKinds :
       Becomes(CodeEditor_getSuggestion(World, w, requestType))

\* CodeEditor.tsx:179-186, an action chosen in the Quick Assist palette
QuickAssistAction(w) ==
  /\ Ready(w)
  /\ hist.asked < MaxAsks
  /\ ~win[w].isAIProcessing
  /\ \E requestType \in RequestKinds :
       Becomes(CodeEditor_getSuggestion(World, w, requestType))

\* the network answers the await a suspended getSuggestion is at
AssistAnswer(w) ==
  \E i \in DOMAIN win[w].requests, outcome \in AIOutcomes, ok \in BOOLEAN :
    /\ win[w].requests[i].stage # "ai" => outcome = "json"
    /\ win[w].requests[i].stage = "ai" => ok
    /\ Becomes(Running(Resumed(World, w, i, outcome,
                               Content(win[w].requests[i].n), ok),
                       w, win[w].requests[i].n))

\* db.sessions.incrementSuggestions(id, true), QuickAssistPanel.tsx:792-802:
\* the answer to its get, after which it awaits its update
incrementSuggestions_get(wd, w, j, ok) ==
  IF ok
    THEN [wd EXCEPT !.win[w].increments[j] =
            [stage |-> "update",
             read |-> [total_suggestions |-> wd.win[w].total_suggestions,
                       accepted_suggestions |-> wd.win[w].accepted_suggestions]]]
    ELSE [wd EXCEPT !.win[w].increments =
            SubSeq(@, 1, j - 1) \o SubSeq(@, j + 1, Len(@))]

\* the answer to its update: the row gets the values read, plus one
incrementSuggestions_update(wd, w, j, ok) ==
  LET read == wd.win[w].increments[j].read
      done == [wd EXCEPT !.win[w].increments =
                 SubSeq(@, 1, j - 1) \o SubSeq(@, j + 1, Len(@))]
  IN IF ok
       THEN [done EXCEPT
               !.hist.incremented[w].n = @ + 1,
               !.hist.incremented[w].k = @ + 1,
               !.win[w].total_suggestions = read.total_suggestions + 1,
               !.win[w].accepted_suggestions = read.accepted_suggestions + 1]
       ELSE done

\* CodeEditor.tsx:242-264.  executeEdits puts the suggested text in place
\* of the line, which the editor reports as a change; incrementSuggestions
\* is called and not awaited.  With the mock store its awaits are answered
\* without the network
applySuggestion(wd, w) ==
  LET edited == handleEditorChange(wd, w, wd.win[w].suggestion[1].text)
      j == Len(edited.win[w].increments) + 1
      called == [edited EXCEPT !.win[w].increments =
                   Append(@, [stage |-> "get", read |-> <<>>])]
      ran == IF wd.isMock
               THEN incrementSuggestions_update(
                      incrementSuggestions_get(called, w, j, TRUE), w, j, TRUE)
               ELSE called
  IN [ran EXCEPT !.win[w].suggestion = <<>>]

\* CodeEditor.tsx:410, 432: the Apply button of the suggestion shown
ApplySuggestion(w) ==
  /\ Ready(w)
  /\ win[w].suggestion # <<>> /\ ~win[w].isAIProcessing
  /\ Becomes(Render(applySuggestion(World, w), w, win[w], FALSE, "local", TRUE))

\* the network answers the await an incrementSuggestions call of
\* applySuggestion is at
IncrementAnswer(w) ==
  \E j \in DOMAIN win[w].increments, ok \in BOOLEAN :
    Becomes(IF win[w].increments[j].stage = "get"
              THEN incrementSuggestions_get(World, w, j, ok)
              ELSE incrementSuggestions_update(World, w, j, ok))

\* CodeEditor.tsx:266-268
DismissSuggestion(w) ==
  /\ win[w].suggestion # <<>> /\ ~win[w].isAIProcessing
  /\ Becomes([World EXCEPT !.win[w].suggestion = <<>>])

InitAssist ==
  \E mock \in BOOLEAN, key \in BOOLEAN :
    LET wd == Loaded(ColdWorld(mock, [w \in Windows |-> "A"])) IN
    Starts([wd EXCEPT !.win = [w \in Windows |-> [@[w] EXCEPT !.apiKey = key]]])

NextAssist ==
  \/ \E w \in AppWindows : ManualSuggestion(w)
  \/ \E w \in AppWindows : QuickAssistAction(w)
  \/ \E w \in AppWindows : AssistAnswer(w)
  \/ \E w \in AppWindows : DismissSuggestion(w)
  \/ \E w \in AppWindows : ApplySuggestion(w)
  \/ \E w \in AppWindows : IncrementAnswer(w)

SpecAssist == InitAssist /\ [][NextAssist]_vars

\* aiService.getSuggestion applied to any request, with or without a key
\* and with any outcome of the fetch
Ask(apiKey) ==
  /\ hist.asked = 0
  /\ \E outcome \in AIOutcomes, kind \in AnyKinds,
        language \in Languages, code \in {Typed(1), Typed(2)} :
       LET request == [code |-> code, language |-> language, requestType |-> kind]
       IN Becomes(Answered(World, apiKey, request, outcome, Content(1),
                    aiService_getSuggestion(apiKey, request, outcome, Content(1))))

NextFallback == \E apiKey \in BOOLEAN : Ask(apiKey)

SpecFallback == InitAssist /\ [][NextFallback]_vars

----------------------------------------------------------------------------
(* The windows a host opens.  With a session established and its Quick    *)
(* Assist window opened, hosts press "Open Quick Assist Window", the user  *)
(* closes opened windows, the checkClosed intervals fire, and sessions are *)
(* ended and created.                                                      *)

\* QuickAssistPanel.tsx:177-187, the button of the active-session view
OpenWindow(w) ==
  /\ w \in AppWindows /\ Ready(w)
  /\ win[w].sharedSession # <<>> /\ win[w].isHost
  /\ Len(win[w].popups) < MaxOpens
  /\ \E popupOk \in BOOLEAN :
       Becomes(openEditorWindow(World, w, win[w].sharedSession[1].share_code,
                                popupOk).wd)

\* the user closes a window that window w has opened
ClosePopup(w) ==
  \E i \in DOMAIN win[w].popups :
    /\ ~win[w].popups[i].closed
    /\ Becomes([World EXCEPT !.win[w].popups[i].closed = TRUE])

\* a checkClosed interval of window w fires
WindowPoll(w) ==
  \E j \in DOMAIN win[w].pollers : Becomes(checkClosed(World, w, j))

NextWindows ==
  \/ \E w \in Windows : CreateSession(w)
  \/ \E w \in Windows : EndSession(w)
  \/ \E w \in Windows : OpenWindow(w)
  \/ \E w \in Windows : ClosePopup(w)
  \/ \E w \in Windows : WindowPoll(w)

InitWindows ==
  \E mock \in BOOLEAN, guest \in {"g", "c"} :
    Starts([Established(mock, guest, "edit") EXCEPT !.rnd = 0, !.drawn = 0])

SpecWindows == InitWindows /\ [][NextWindows]_vars

\* The windows of one session: the host opens its Quick Assist window
\* again, windows are closed and the checkClosed intervals fire.
\* setInterval(checkClosed, 1000): an interval that is not cleared fires
\* again and again
NextPollers ==
  \/ \E w \in Windows : OpenWindow(w)
  \/ \E w \in Windows : ClosePopup(w)
  \/ \E w \in Windows : WindowPoll(w)

FairWindows ==
  /\ InitWindows /\ [][NextPollers]_vars
  /\ \A w \in AppWindows : WF_vars(WindowPoll(w))

----------------------------------------------------------------------------
(* The polling-backed log at its cap.  The host of an established session  *)
(* has typed for a while, pausing after every change until the debounce    *)
(* has published it, so that the log holds LogCap - 2 events; then the     *)
(* participants publish edits, language changes and cursor positions       *)
(* through the service.                                                    *)

\* the host changes the buffer, the debounce delay passes, the timer fires
TypeAndWait(wd, w) ==
  LET old == wd.win[w]
      value == IF old.code = Typed(1) THEN Typed(2) ELSE Typed(1)
      typed == Render(handleEditorChange(wd, w, value), w, old, FALSE,
                      "local", TRUE)
      later == [typed EXCEPT !.now = @ + DebounceMs, !.rnd = 0, !.drawn = 0]
  IN debounceFire(later, w)

RECURSIVE TypeUntil(_, _, _)
TypeUntil(wd, w, total) ==
  IF Len(wd.hist.pubs) >= total THEN wd
  ELSE TypeUntil(TypeAndWait(wd, w), w, total)

InitLog ==
  \E guest \in {"g", "c"} :
    Starts([TypeUntil(Established(TRUE, guest, "edit"), "h", LogCap - 2)
              EXCEPT !.rnd = 0, !.drawn = 0])

\* a publish made while the log is at its cap
DoLog(wd) ==
  /\ Len(wd.hist.pubs) <= (LogCap - 2) + MaxEvents
  /\ DistinctIds(wd)
  /\ Becomes(wd)

\* collaborationService.syncCode / syncLanguage / syncCursor called by a
\* participant of the session
SyncCode(w) ==
  /\ Ready(w) /\ win[w].sharedSession # <<>>
  /\ \E r \in Rands :
       DoLog(syncCode(Drawing(World, r), w, win[w].sharedSession[1].id,
                      win[w].code, win[w].language,
                      [by |-> "local", via |-> "direct"]))

SyncLanguage(w) ==
  /\ Ready(w) /\ win[w].sharedSession # <<>>
  /\ \E r \in Rands :
       DoLog(syncLanguage(Drawing(World, r), w, win[w].sharedSession[1].id,
                          win[w].language,
                          [by |-> "local", via |-> "direct"]))

SyncCursor(w) ==
  /\ Ready(w) /\ win[w].sharedSession # <<>>
  /\ \E r \in Rands :
       DoLog(syncCursor(Drawing(World, r), w, win[w].sharedSession[1].id,
                        1, 1, [by |-> "local", via |-> "direct"]))

\* a millisecond passes
Pass ==
  /\ now % DebounceMs < MaxMs
  /\ now' = now + 1
  /\ UNCHANGED <<isMock, profile, ls, db, win, uuid, hist>>

NextLog ==
  \/ \E w \in Windows : SyncCode(w)
  \/ \E w \in Windows : SyncLanguage(w)
  \/ \E w \in Windows : SyncCursor(w)
  \/ Pass

SpecLog == InitLog /\ [][NextLog]_vars

----------------------------------------------------------------------------
(* Properties                                                              *)

Events == DOMAIN hist.pubs

\* the session window w shows as its current one, 0 if none
Current(w) ==
  IF win[w].sharedSession = <<>> THEN 0 ELSE win[w].sharedSession[1].id

\* event n is still in the log of its session
Retained(n) ==
  \E p \in Profiles :
    /\ Has(ls[p].sync, hist.pubs[n].sid)
    /\ \E i \in DOMAIN ls[p].sync[hist.pubs[n].sid] :
         ls[p].sync[hist.pubs[n].sid][i].n = n

\* window w polls the log of the session of event n, has subscribed before
\* the event was published and has let its timer fire after that
Polled(w, n) ==
  /\ isMock
  /\ win[w].mockInterval # <<>>
  /\ win[w].mockInterval[1].sid = hist.pubs[n].sid
  /\ win[w].mockInterval[1].from < n
  /\ n <= win[w].mockInterval[1].seen

\* window w holds a channel on the session of event n, opened before the
\* event was published, and the platform has pushed the event to it
Pushed(w, n) ==
  /\ ~isMock
  /\ win[w].channel # <<>>
  /\ win[w].channel[1].sid = hist.pubs[n].sid
  /\ win[w].channel[1].from < n
  /\ \A i \in DOMAIN win[w].channel[1].inbox : win[w].channel[1].inbox[i].n # n

\* C1: an event published with origin id X is never delivered to a
\* subscriber whose identity is X, and it is delivered to every other
\* subscriber of the session (once the subscriber's poll timer has fired, or
\* the platform has pushed the row, after the publish).
C1_EchoSuppressedAndDeliveredToOthers ==
  \A w \in Windows : \A n \in Events :
    /\ hist.pubs[n].user_id = win[w].userId => hist.deliv[w][n] = 0
    /\ ( /\ hist.pubs[n].user_id # win[w].userId
         /\ (Polled(w, n) /\ Retained(n)) \/ Pushed(w, n) )
       => hist.deliv[w][n] >= 1

\* C2: on the polling channel, an event another participant publishes while
\* a window is subscribed is delivered to that window's callbacks exactly
\* once: not twice, and not zero times once the poll timer has fired,
\* whatever subscribeToSession / unsubscribe calls the window has made.
C2_PolledExactlyOnce ==
  isMock =>
    \A w \in Windows : \A n \in Events :
      ( /\ win[w].mockInterval # <<>>
        /\ win[w].mockInterval[1].sid = hist.pubs[n].sid
        /\ win[w].mockInterval[1].from < n
        /\ hist.pubs[n].user_id # win[w].userId )
      => /\ hist.deliv[w][n] <= 1
         /\ (Polled(w, n) /\ Retained(n)) => hist.deliv[w][n] = 1

\* host h and guest g of one session have both published local edits, no
\* debounce timer is pending and each has been handed every event of the
\* other
Settled(h, g) ==
  LET sid == Current(h) IN
  /\ \E n \in Events : /\ hist.pubs[n].w = h /\ hist.pubs[n].sid = sid
                       /\ hist.pubs[n].action = "edit"
                       /\ hist.pubs[n].cause.by = "local"
  /\ \E n \in Events : /\ hist.pubs[n].w = g /\ hist.pubs[n].sid = sid
                       /\ hist.pubs[n].action = "edit"
                       /\ hist.pubs[n].cause.by = "local"
  /\ win[h].timer = <<>> /\ win[g].timer = <<>>
  /\ win[h].langCont = <<>> /\ win[g].langCont = <<>>
  /\ \A n \in Events :
       hist.pubs[n].sid = sid =>
         /\ hist.pubs[n].w = g => hist.deliv[h][n] >= 1
         /\ hist.pubs[n].w = h => hist.deliv[g][n] >= 1

\* C3: last write wins on both sides: host and guest (edit permission,
\* different participant ids) have both edited and stopped, and every
\* published event has been delivered; then their buffers are equal.
C3_BuffersConverge ==
  \A h, g \in Windows :
    ( /\ h # g
      /\ Current(h) # 0 /\ Current(g) = Current(h)
      /\ win[h].isHost /\ ~win[g].isHost
      /\ win[g].sharedSession[1].permissions = "edit"
      /\ win[h].userId # win[g].userId
      /\ Settled(h, g) )
    => win[h].code = win[g].code

\* C4, first half: no edit event that a view-only guest publishes stems
\* from a change the guest made to its own buffer.
ViewGuestSilent ==
  \A n \in Events :
    (hist.pubs[n].viewGuest /\ hist.pubs[n].action = "edit")
      => hist.pubs[n].cause.by # "local"

\* the events whose callbacks this step invokes in window w
Handed(w) == {n \in Events : hist'.deliv[w][n] > hist.deliv[w][n]}

Latest(S) == CHOOSE n \in S : \A m \in S : m <= n

\* C4, second half: a step that hands edit events to a view-only guest
\* leaves the content of the last of them in the guest's buffer.
ViewGuestReceives ==
  \A w \in Windows :
    ( /\ IsViewOnlyGuest(win[w])
      /\ Handed(w) # {}
      /\ \A n \in Handed(w) : hist.pubs[n].action = "edit" )
    => win'[w].code = hist.pubs[Latest(Handed(w))].code

\* C4: while the local participant is the guest of a view session, no local
\* buffer edit results in the publish of an edit event, in the main editor
\* and in the Quick Assist window alike; the guest still receives and
\* applies remote edit events.
C4_ViewGuestNeverPublishesLocalEdits ==
  []ViewGuestSilent /\ [][ViewGuestReceives]_vars

\* a view-only guest whose editor has refused a local edit and who has been
\* handed an edit event of the host
C4_Witness ==
  \E w \in Windows :
    /\ IsViewOnlyGuest(win[w])
    /\ w \in hist.refused
    /\ \E n \in Events : hist.pubs[n].action = "edit" /\ hist.deliv[w][n] > 0

\* C5: the local changes of a burst are published as one edit event, by the
\* debounce timer, carrying the buffer and the language of the publisher as
\* they are when it fires; no change is published on its own.  In the main
\* editor and in the Quick Assist window.
C5_LocalEditsPublishedByDebounceOnly ==
  \A n \in Events :
    (hist.pubs[n].action = "edit" /\ hist.pubs[n].cause.by = "local")
      => /\ hist.pubs[n].cause.via = "debounce"
         /\ hist.pubs[n].code = hist.pubs[n].buffer
         /\ hist.pubs[n].language = hist.pubs[n].selected

\* C6: applying a remote edit or language event makes the receiving
\* participant publish nothing.
C6_NoRebroadcast ==
  \A n \in Events : hist.pubs[n].cause.by # "remote"

\* C7: a join succeeds only for a record that is active and whose
\* expires_at is later than the time of the call.
C7_JoinOnlyUnexpired ==
  \A w \in Windows :
    (hist.joins[w] # <<>> /\ hist.joins[w][1].ok)
      => /\ hist.joins[w][1].session[1].is_active
         /\ hist.joins[w][1].at < hist.joins[w][1].session[1].expires_at

\* the records of the registry, whichever backs it
Records ==
  IF isMock
    THEN UNION {Range(ls[p].sessions) : p \in Profiles}
    ELSE db.sessions

\* C8: after the host has ended a session the session is inactive, and no
\* join made after that returns it; with the store and without.
C8_EndedSessionCannotBeJoined ==
  /\ \A rec \in Records : rec.id \in hist.ended => ~rec.is_active
  /\ \A w \in Windows :
       (hist.joins[w] # <<>> /\ hist.joins[w][1].ok)
         => hist.joins[w][1].session[1].id \notin hist.joins[w][1].ended

\* C9: when a guest ends the session (endSession with isHost = false) the
\* session records and the sync logs are the same after the step as before.
C9_GuestEndChangesNothing ==
  [][ \A w \in Windows :
        (Current(w) # 0 /\ ~win[w].isHost /\ Current(w)' = 0)
          => /\ db' = db
             /\ \A p \in Profiles : /\ ls'[p].sessions = ls[p].sessions
                                    /\ ls'[p].sync = ls[p].sync ]_vars

\* C10: a join with a share code that differs from the code of an active,
\* unexpired session only in letter case or surrounding white space
\* succeeds and returns that session, from the panel and from the Quick
\* Assist window (when the store answers at all).
C10_JoinIgnoresCaseAndWhitespace ==
  \A w \in Windows :
    ( /\ hist.joins[w] # <<>>
      /\ hist.joins[w][1].answered
      /\ toUpperCase(trim(hist.joins[w][1].shareCode)) \in hist.joins[w][1].live )
    => /\ hist.joins[w][1].ok
       /\ hist.joins[w][1].session[1].share_code
            = toUpperCase(trim(hist.joins[w][1].shareCode))

\* the messages with which joinSharedSession reports that no session can be
\* joined under the code (collaboration.ts:106, 110, 131)
NotFoundMessages ==
  {"Session not found", "Session is not active",
   "Session not found or no longer active"}

\* C11: a join that fails because the store did not answer is not reported
\* with a not-found message, and a join that fails although the store
\* answered (unknown, inactive or expired code) is reported with one.
C11_NotFoundDistinctFromStoreFailure ==
  \A w \in Windows :
    (hist.joins[w] # <<>> /\ ~hist.joins[w][1].ok)
      => (hist.joins[w][1].answered
            <=> hist.joins[w][1].error \in NotFoundMessages)

\* a step in which window w has called joinSharedSession
Joins(w) == hist.joins'[w] # hist.joins[w] /\ hist.joins'[w] # <<>>

\* C12, first half: a successful join by P makes P the guest of the record
\* and sets connected_at; id, share code, host and expires_at stay as they
\* were, and the registry holds that one record for the session.
JoinTakesGuestSlot ==
  \A w \in Windows :
    (Joins(w) /\ hist.joins'[w][1].ok) =>
      LET s == hist.joins'[w][1].session[1] IN
      /\ s.guest_user_id = win'[w].userId
      /\ s.connected_at = <<now>>
      /\ \E rec \in Records : /\ rec.id = s.id
                              /\ rec.share_code = s.share_code
                              /\ rec.host_user_id = s.host_user_id
                              /\ rec.expires_at = s.expires_at
      /\ s \in Records'
      /\ \A rec \in Records' : rec.id = s.id => rec = s

\* C12, second half: a join of a code whose active record already has
\* another participant as guest completes without error (when the store
\* answers).
LaterJoinSucceeds ==
  \A w \in Windows :
    ( /\ Joins(w)
      /\ hist.joins'[w][1].answered
      /\ \E rec \in Records :
           /\ rec.share_code = hist.joins'[w][1].shareCode
           /\ rec.is_active
           /\ rec.guest_user_id \notin {NoUser, win'[w].userId} )
    => hist.joins'[w][1].ok

\* C12: a successful join by P sets guest and connected_at and nothing else
\* of id, share code, host, expires_at; a later join of the same code by
\* another participant Q succeeds too and leaves Q as the one guest.
C12_LastJoinWins ==
  [][JoinTakesGuestSlot /\ LaterJoinSucceeds]_vars

\* two windows of different participants have joined the same session one
\* after the other; the record names the later one as guest
C12_Witness ==
  \E w, v \in Windows :
    /\ hist.joins[w] # <<>> /\ hist.joins[w][1].ok
    /\ hist.joins[v] # <<>> /\ hist.joins[v][1].ok
    /\ win[w].userId # win[v].userId
    /\ hist.joins[w][1].session[1].id = hist.joins[v][1].session[1].id
    /\ hist.joins[w][1].session[1].guest_user_id = win[w].userId
    /\ hist.joins[v][1].session[1].guest_user_id = win[v].userId
    /\ hist.joins[v][1].session[1] \in Records

\* the sessions createSharedSession has returned
Made == Range(hist.made)

\* C13: no two active sessions have the same share code, and creating a
\* session never replaces the record of another one: every session that
\* was created is still stored.
C13_ActiveShareCodesUnique ==
  /\ \A a, b \in Records :
       (a.is_active /\ b.is_active /\ a.share_code = b.share_code)
         => a.id = b.id
  /\ \A m \in Made : \E rec \in Records : rec.id = m.session.id

\* C14: the permission of a session is the one passed to createSession,
\* in the registry, in every session object a join has returned and in the
\* current session of every window, whatever was done with the session.
C14_PermissionNeverChanges ==
  \A m \in Made :
    /\ \A rec \in Records :
         rec.id = m.session.id => rec.permissions = m.permissions
    /\ \A w \in Windows :
         /\ Current(w) = m.session.id
              => win[w].sharedSession[1].permissions = m.permissions
         /\ ( /\ hist.joins[w] # <<>> /\ hist.joins[w][1].ok
              /\ hist.joins[w][1].session[1].id = m.session.id )
              => hist.joins[w][1].session[1].permissions = m.permissions

\* a view-only session that has been joined and then ended by its host
C14_Witness ==
  \E m \in Made :
    /\ m.permissions = "view"
    /\ m.session.id \in hist.ended
    /\ \E w \in Windows : /\ hist.joins[w] # <<>> /\ hist.joins[w][1].ok
                          /\ hist.joins[w][1].session[1].id = m.session.id
    /\ \E rec \in Records : rec.id = m.session.id

\* C15: createSession stores and returns a record with the permission
\* given, active, without guest, with the caller as host and with
\* expires_at 24 hours after the creation.
C15_CreatedRecord ==
  [][ Len(hist.made') = Len(hist.made) + 1 =>
        LET m == hist.made'[Len(hist.made')]
            s == m.session
        IN /\ s.permissions = m.permissions
           /\ s.session_id = m.sessionId
           /\ s.is_active
           /\ s.guest_user_id = NoUser
           /\ s.connected_at = <<>>
           /\ s.host_user_id = win[m.w].userId
           /\ s.expires_at = now + TTL
           /\ s \in Records' ]_vars

\* sessions have been created with either permission, one of them after
\* time has passed
C15_Witness ==
  /\ \E m \in Made : m.permissions = "view"
  /\ \E m \in Made : m.permissions = "edit" /\ m.session.created_at > 0

\* the publishes made to session sid, by their number
PublishedTo(sid) == {n \in Events : hist.pubs[n].sid = sid}

\* C16: the log of a session holds at most LogCap events; they are the most
\* recently published events of the session, in publish order and as they
\* were published, and the last published event is the last element.
C16_LogKeepsLatest ==
  \A p \in Profiles : \A sid \in DOMAIN ls[p].sync :
    LET log == ls[p].sync[sid]
        N == PublishedTo(sid)
    IN /\ Len(log) <= LogCap
       /\ Len(log) = IF Cardinality(N) <= LogCap THEN Cardinality(N) ELSE LogCap
       /\ \A i \in DOMAIN log :
            /\ log[i].n \in N
            /\ log[i].action = hist.pubs[log[i].n].action
            /\ log[i].code_content = hist.pubs[log[i].n].code
            /\ log[i].user_id = hist.pubs[log[i].n].user_id
            \* as many later publishes as later elements
            /\ Cardinality({n \in N : n > log[i].n}) = Len(log) - i
       /\ \A i, j \in DOMAIN log : i < j => log[i].n < log[j].n

\* more than LogCap events have been published to a session: its log is
\* full, the oldest events are gone, and the last publish was a cursor
\* position after a language change
C16_Witness ==
  \E p \in Profiles : \E sid \in DOMAIN ls[p].sync :
    LET log == ls[p].sync[sid] IN
    /\ Cardinality(PublishedTo(sid)) > LogCap
    /\ Len(log) = LogCap
    /\ log[1].n > 1
    /\ log[LogCap].action = "cursor"
    /\ log[LogCap - 1].action = "language"

\* C17: once unsubscribe has returned, no polling timer and no realtime
\* channel created by an earlier subscribeToSession is still active.
C17_UnsubscribeStopsEverything ==
  \A w \in Windows :
    /\ \A i \in DOMAIN win[w].leakedIntervals : ~win[w].leakedIntervals[i].outlived
    /\ \A i \in DOMAIN win[w].leakedChannels : ~win[w].leakedChannels[i].outlived

\* window w handles End Session in this step
EndsSession(w) == Current(w) # 0 /\ Current(w)' = 0

\* C18: once a participant has handled End Session, none of the session's
\* timers is scheduled (polling interval, debounce timer, window-close
\* poller) and no channel is subscribed for it.
C18_EndSessionCancelsTimers ==
  [][\A w \in Windows : EndsSession(w) =>
       LET s == win[w].sharedSession[1]
           after == win'[w]
       IN /\ after.mockInterval = <<>>
          /\ \A i \in DOMAIN after.leakedIntervals : after.leakedIntervals[i].sid # s.id
          /\ after.timer = <<>>
          /\ after.channel = <<>>
          /\ \A i \in DOMAIN after.leakedChannels : after.leakedChannels[i].sid # s.id
          /\ \A j \in DOMAIN after.pollers : after.pollers[j].code # s.share_code]_vars

\* the open windows window w has opened for share code `code`
LiveWindows(w, code) ==
  {i \in DOMAIN win[w].popups :
     win[w].popups[i].name = code /\ ~win[w].popups[i].closed}

C19_SessionEnteredOnlyFromIdle ==
  [][\A w \in Windows :
       Current(w) # 0 => Current(w)' \in {0, Current(w)}]_vars

\* characters easily taken for one another
Ambiguous == {"0", "O", "1", "I"}

\* C26: a generated share code has exactly CodeLen characters, each of the
\* 32-character alphabet, which holds none of 0, O, 1 and I.
C26_ShareCodeShape ==
  /\ Cardinality(Range(chars)) = 32
  /\ Range(chars) \cap Ambiguous = {}
  /\ \A m \in Made :
       /\ Len(m.session.share_code) = CodeLen
       /\ \A i \in DOMAIN m.session.share_code :
            m.session.share_code[i] \in Range(chars)

\* a session has been created whose code holds the first and the last
\* character of the alphabet
C26_Witness ==
  \E m \in Made :
    /\ chars[1] \in Range(m.session.share_code)
    /\ chars[Len(chars)] \in Range(m.session.share_code)

\* the id stored in the storage of window w
StoredId(w) == ls[profile[w]].userId

\* C27: once a call of getOrCreateUserId has stored an id, every call that
\* returns afterwards returns that id and leaves the stored value as it is.
C27_UserIdStoredOnce ==
  [][\A w \in Windows :
       (~Ready(w) /\ Ready(w)' /\ StoredId(w) # NoUser)
         => (win'[w].userId = StoredId(w) /\ StoredId(w)' = StoredId(w))]_vars

\* C25: when window.open returned null during Create Session, the message
\* telling the user to allow popups is shown, no window is recorded for the
\* share code, and the created session is the host's current one.
C25_PopupBlockedReported ==
  [][\A w \in Windows :
       (/\ Len(hist.made') = Len(hist.made) + 1
        /\ hist.made'[Len(hist.made')].w = w
        /\ Len(win'[w].popups) = Len(win[w].popups))
         => LET s == hist.made'[Len(hist.made')].session IN
            /\ VisibleError(win'[w]) = PopupBlocked
            /\ ~Has(win'[w].sharedWindows, s.share_code)
            /\ win'[w].sharedSession = <<s>>]_vars

\* the poll timers of window w: 0 is the one mockInterval refers to
Intervals(w) ==
  (IF win[w].mockInterval # <<>> THEN {0} ELSE {})
    \cup DOMAIN win[w].leakedIntervals

\* poll timer k of window w fires in this step
Ticks(w, k) ==
  /\ k \in Intervals(w) /\ IntervalAt(win[w], k).at < now
  /\ (k = 0 => win'[w].mockInterval # <<>>)
  /\ (k > 0 => k \in DOMAIN win'[w].leakedIntervals)
  /\ IntervalAt(win'[w], k).at = now
  /\ \A j \in Intervals(w) \ {k} :
       (j = 0 /\ win'[w].mockInterval = win[w].mockInterval)
         \/ (j > 0 /\ win'[w].leakedIntervals[j] = win[w].leakedIntervals[j])

\* id a compares greater than id b
Later(a, b) == a.t > b.t \/ (a.t = b.t /\ a.r > b.r)

\* the events a tick of a timer with marker `last` is due to hand on
Due(w, sid, last) ==
  LET log == IF sid \in DOMAIN ls[profile[w]].sync
               THEN ls[profile[w]].sync[sid] ELSE <<>>
      due(s) == /\ s.user_id # win[w].userId
                /\ last = <<>> \/ Later(s.id, last[1])
  IN SelectSeq(log, due)

\* C28: a tick hands to the callbacks exactly the events of the log that
\* other participants made and whose id is greater than the marker, in log
\* order; afterwards the marker is the id of the last of them, so it never
\* moves back and no event at or below it is handed on again.
C28_TickDeliversNewEvents ==
  [][\A w \in Windows : \A k \in Intervals(w) :
       (Ticks(w, k) /\ win[w].callbacks # "none") =>
         LET iv == IntervalAt(win[w], k)
             due == Due(w, iv.sid, iv.last)
             after == IntervalAt(win'[w], k).last
         IN /\ hist.batch'[w] = [i \in DOMAIN due |-> due[i].n]
            /\ after = IF due = <<>> THEN iv.last
                       ELSE <<due[Len(due)].id>>
            /\ iv.last # <<>> =>
                 /\ after # <<>>
                 /\ after = iv.last \/ Later(after[1], iv.last[1])]_vars

\* a timer with a marker has fired and handed on an event, while the log
\* holds an event of the window itself and an event of another participant
\* that the timer had handed on before
C28_Witness ==
  \E w \in Windows :
    /\ win[w].mockInterval # <<>>
    /\ win[w].mockInterval[1].last # <<>>
    /\ hist.batch[w] # <<>>
    /\ LET log == Due(w, win[w].mockInterval[1].sid, <<>>)
           own == {n \in Events : hist.pubs[n].user_id = win[w].userId /\ Retained(n)}
       IN /\ own # {}
          /\ \E i \in DOMAIN log :
               /\ log[i].n \notin Range(hist.batch[w])
               /\ hist.deliv[w][log[i].n] >= 1

\* C29: in the log of a session an event appended later compares greater,
\* under the comparison of the poll filter, than every event appended
\* earlier.
C29_IdsIncreaseAlongLog ==
  \A p \in Profiles : \A sid \in DOMAIN ls[p].sync :
    LET log == ls[p].sync[sid] IN
    \A j \in DOMAIN log : \A i \in 1..(j - 1) : IdGreater(log[j].id, log[i].id)

\* the number of joinSharedSession calls window w has made
JoinCount(w) == IF hist.joins[w] = <<>> THEN 0 ELSE hist.joins[w][1].nth

\* C21: once a join of the Quick Assist window has succeeded, the retry
\* timer is stopped and the window makes no further join attempt.
C21_NoJoinAfterConnected ==
  [][\A w \in ChildWindows :
       (hist.joins[w] # <<>> /\ hist.joins[w][1].ok)
         => (~win[w].retry /\ JoinCount(w)' = JoinCount(w))]_vars

\* C22: while the Quick Assist window shows a session it has joined, no
\* message listener and no request-code interval of the local fallback is
\* active.
C22_FallbackCancelledOnConnect ==
  \A w \in ChildWindows :
    (win[w].sharedSession # <<>> /\ hist.joins[w] # <<>> /\ hist.joins[w][1].ok)
      => (win[w].listeners = <<>> /\ win[w].requesters = 0)

\* C30: the buffer of a host whose session has permission view does not
\* change while nobody types in the host's window: nothing a guest does,
\* through the sync channel or through the cross-window bridge, changes it.
C30_ViewSessionHostBufferUnchanged ==
  [][\A w \in AppWindows :
       (/\ win[w].sharedSession # <<>> /\ win[w].isHost
        /\ win[w].sharedSession[1].permissions = "view"
        /\ win'[w].sharedSession = win[w].sharedSession)
         => win'[w].code = win[w].code]_vars

\* C23: the response to an older suggestion request never replaces the
\* shown response to a newer one.
C23_OlderResponseNeverReplacesNewer ==
  [][\A w \in Windows :
       (win[w].suggestion # <<>> /\ win'[w].suggestion # <<>>)
         => win'[w].suggestion[1].n >= win[w].suggestion[1].n]_vars

\* the fetch outcomes with which the try block of getSuggestion throws
Failing == {"network", "status", "body", "shape", "braces"}

\* the explanations of the canned responses
CannedExplanation ==
  [completion |-> "Complete the function with a return statement",
   optimization |-> "Replaced nested loops with functional approach for better readability and performance",
   debug |-> "Added null and empty array checks to prevent runtime errors",
   docstring |-> "Generated comprehensive documentation"]

C38_SyncStateAdopted ==
  [][\A w \in ChildWindows :
       (/\ win[w].inbox # <<>> /\ win'[w].inbox = Tail(win[w].inbox)
        /\ Head(win[w].inbox).type = "sync-state"
        /\ win[w].listeners # <<>>)
         => /\ win'[w].code = Head(win[w].inbox).code
            /\ win'[w].language = Head(win[w].inbox).language]_vars

\* C31: no language event that a view-only guest publishes stems from the
\* guest's own use of the language selector, in the main editor and in the
\* Quick Assist window alike.
C31_ViewGuestNeverPublishesLanguage ==
  \A n \in Events :
    (hist.pubs[n].viewGuest /\ hist.pubs[n].action = "language")
      => hist.pubs[n].cause.by # "local"

\* window i of the windows w has opened is closed
ClosedWindow(w, i) == i \in DOMAIN win[w].popups /\ win[w].popups[i].closed

\* sharedWindows of w does not refer to window i and no checkClosed
\* interval watches it
Released(w, i) ==
  /\ \A code \in DOMAIN win[w].sharedWindows : win[w].sharedWindows[code] # i
  /\ \A j \in DOMAIN win[w].pollers : win[w].pollers[j].window # i

\* C32: when a window that was opened for a share code is closed, the
\* opener's checkClosed interval eventually removes the handle from
\* sharedWindows and is cleared.
C32_ClosedWindowReleased ==
  \A w \in AppWindows : \A i \in 1..MaxOpens :
    ClosedWindow(w, i) ~> Released(w, i)

C32_Witness ==
  \E w \in AppWindows : \E i \in 1..MaxOpens :
    /\ ClosedWindow(w, i) /\ Released(w, i)
    /\ win[w].sharedSession # <<>>

\* C33: while a window that w has opened for a share code is open,
\* sharedWindows of w refers to it under that code.
C33_OpenWindowKeptInMap ==
  \A w \in AppWindows :
    \A code \in {win[w].popups[i].name : i \in DOMAIN win[w].popups} :
      LiveWindows(w, code) # {}
        => /\ Has(win[w].sharedWindows, code)
           /\ win[w].sharedWindows[code] \in LiveWindows(w, code)

Channels(w) ==
  (IF win[w].channel # <<>> THEN {0} ELSE {})
    \cup DOMAIN win[w].leakedChannels

\* channel k of window w hands the event at the head of its queue to its
\* listener in this step
Pops(w, k) ==
  /\ k \in Channels(w) /\ ChannelAt(win[w], k).inbox # <<>>
  /\ (k = 0 => win'[w].channel # <<>>)
  /\ (k > 0 => k \in DOMAIN win'[w].leakedChannels)
  /\ ChannelAt(win'[w], k).inbox = Tail(ChannelAt(win[w], k).inbox)

\* C34: the sync channel of a Quick Assist window that runs in the browser
\* of its opener hands the events other windows have published to the
\* window's subscriber: a poll tick every such edit event of the log that
\* is newer than the marker, a realtime channel the edit event it has
\* received.
C34_PopupReceivesHostEvents ==
  [][\A c \in ChildWindows :
       (win[c].opener # <<>> /\ win[c].callbacks # "none") =>
         /\ \A k \in Intervals(c) :
              Ticks(c, k) =>
                LET iv == IntervalAt(win[c], k)
                    log == IF iv.sid \in DOMAIN ls[profile[c]].sync
                             THEN ls[profile[c]].sync[iv.sid] ELSE <<>>
                IN \A i \in DOMAIN log :
                     (/\ hist.pubs[log[i].n].w # c
                      /\ log[i].action = "edit"
                      /\ iv.last = <<>> \/ Later(log[i].id, iv.last[1]))
                       => log[i].n \in Range(hist.batch'[c])
         /\ \A k \in Channels(c) :
              (/\ Pops(c, k)
               /\ hist.pubs[Head(ChannelAt(win[c], k).inbox).n].w # c
               /\ Head(ChannelAt(win[c], k).inbox).action = "edit")
                => Head(ChannelAt(win[c], k).inbox).n \in Range(hist.batch'[c])]_vars

\* ---------------------------------------------------------------------
\* Publishes of two windows of one browser profile, step by step.  The
\* mock transport appends with getItem, push and setItem
\* (collaboration.ts:240-242, 271-273); nothing orders these steps of one
\* window against those of another window of the same origin.

\* no handler of w runs while w is between its getItem and its setItem
Between(w) == win[w].publishing # <<>>

\* CodeEditor.tsx:94-96 into collaboration.ts:227-240
SyncCodeRead(w) ==
  /\ ~Between(w)
  /\ win[w].timer # <<>>
  /\ win[w].timer[1].at < now
  /\ \E r \in Rands :
       LET t == win[w].timer[1]
           wd == [Drawing(World, r) EXCEPT !.win[w].timer = <<>>]
       IN Do(Publish_read(wd, w, t.sid, t.code, t.language, <<>>, "edit",
                          [by |-> t.cause, via |-> "debounce"]))

\* collaboration.ts:241-243
SyncWrite(w) ==
  /\ Between(w)
  /\ Do(Publish_write(World, w))

InitRace ==
  Starts([Established(TRUE, "g", "edit") EXCEPT !.rnd = 0, !.drawn = 0])

NextRace ==
  \/ \E w \in Windows : ~Between(w) /\ LocalEdit(w)
  \/ \E w \in Windows : ~Between(w) /\ SelectLanguage(w)
  \/ \E w \in Windows : ~Between(w) /\ DebounceFire(w)
  \/ \E w \in Windows : ~Between(w) /\ PollTick(w)
  \/ \E w \in Windows : SyncCodeRead(w)
  \/ \E w \in Windows : SyncWrite(w)
  \/ Tick

SpecRace == InitRace /\ [][NextRace]_vars

\* C35: an event a participant has published to the shared log of a session
\* is in the log once no write-back is outstanding, as long as no more than
\* LogCap events have been published, whatever the order in which the
\* windows read the log and wrote it back.
C35_NoAppendLost ==
  (/\ \A w \in Windows : ~Between(w)
   /\ Len(hist.pubs) <= LogCap)
    => \A n \in Events : Retained(n)

\* the poll timer of window w's subscription fires for the first time since
\* the subscription began, with no marker yet
FirstTick(w) ==
  /\ Ticks(w, 0)
  /\ win[w].callbacks # "none"
  /\ win[w].mockInterval[1].last = <<>>
  /\ win[w].mockInterval[1].seen = win[w].mockInterval[1].from

\* the edit events in the log of the session window w is subscribed to
LogEdits(w) ==
  LET sid == win[w].mockInterval[1].sid
      log == IF sid \in DOMAIN ls[profile[w]].sync
               THEN ls[profile[w]].sync[sid] ELSE <<>>
      isEdit(s) == s.action = "edit"
  IN SelectSeq(log, isEdit)

\* C36: the first firing of the poll timer of a new subscription, which has
\* no marker yet, hands on every event of other participants in the log, in
\* log order; when an edit event is among them, the subscriber's buffer is
\* afterwards the content of the latest edit event in the log.
C36_FirstTickAdoptsLatestEdit ==
  [][\A w \in Windows :
       FirstTick(w) =>
         LET due == Due(w, win[w].mockInterval[1].sid, <<>>)
             edits == LogEdits(w)
         IN /\ hist.batch'[w] = [i \in DOMAIN due |-> due[i].n]
            /\ (\E i \in DOMAIN due : due[i].action = "edit")
                 => win'[w].code = edits[Len(edits)].code_content]_vars

\* ---------------------------------------------------------------------
\* A session over the realtime transport with a guest, which host or guest
\* may end.  The debounce timers, the guard timers and the deliveries of the
\* realtime channel happen by themselves; typing and End Session need not.

InitEnding ==
  \E permissions \in Permissions :
    Starts([Established(FALSE, "g", permissions) EXCEPT !.rnd = 0, !.drawn = 0])

NextEnding ==
  \/ \E w \in AppWindows : EndSession(w)
  \/ \E w \in AppWindows : LocalEdit(w)
  \/ \E w \in AppWindows : DebounceFire(w)
  \/ \E w \in AppWindows : GuardReset(w)
  \/ \E w \in AppWindows : RealtimeDeliver(w)
  \/ Tick

FairEnding ==
  /\ InitEnding /\ [][NextEnding]_vars
  /\ WF_vars(Tick)
  /\ \A w \in AppWindows :
       /\ WF_vars(DebounceFire(w))
       /\ WF_vars(GuardReset(w))
       /\ WF_vars(RealtimeDeliver(w))

\* window w is the guest of session sid
Guesting(w, sid) == Current(w) = sid /\ ~win[w].isHost

\* window w has a poll timer or a realtime channel for session sid
Subscribed(w, sid) ==
  \/ win[w].mockInterval # <<>> /\ win[w].mockInterval[1].sid = sid
  \/ win[w].channel # <<>> /\ win[w].channel[1].sid = sid

\* C37: once the host has ended a session, a window that is the guest of
\* that session is eventually no longer its guest and no longer subscribed
\* to it.
C37_GuestLeavesEndedSession ==
  (1 \in hist.ended /\ Guesting("g", 1))
    ~> (~Guesting("g", 1) /\ ~Subscribed("g", 1))

\* C39: the counters of a window's session count the incrementSuggestions
\* calls that have written the row: total_suggestions every one of them,
\* accepted_suggestions those made with accepted = true, however the calls
\* of requests and of accepts overlap.
C39_CountersLoseNoUpdate ==
  \A w \in AppWindows :
    /\ win[w].total_suggestions = hist.incremented[w].n
    /\ win[w].accepted_suggestions = hist.incremented[w].k

====
